---- MODULE Spec2Model ----
(***************************************************************************)
(* Model of the component-based state machine runtime (namespace smf):     *)
(* EventHandler, ConditionManager, TransitionManager and StateManager.     *)
(* Worker threads are modelled at the granularity of their statements      *)
(* between lock operations; callbacks into user code are steps that are    *)
(* recorded in a history variable.                                         *)
(***************************************************************************)
EXTENDS Integers, Sequences, FiniteSets, TLC

(***************************************************************************)
(* Bounds of the model                                                     *)
(***************************************************************************)
\* number of HandleEvent calls made by external threads
MaxEvents == 2
\* number of SetConditionValue calls made by external threads
MaxUpdates == 2
\* largest value external threads write to a condition
MaxValue == 2
\* last instant of the steady clock
MaxTime == 2
\* number of calls of configuration and query methods made by the configuring thread
MaxCalls == 3
\* number of entries after which a GetStateHierarchy(state) loop is no longer followed
MaxChain == 4
\* number of Stop calls made on one object
MaxStops == 2
\* length of the longest condition list passed to CheckConditions
MaxConds == 3

(***************************************************************************)
(* Program constants                                                       *)
(***************************************************************************)
INTERNAL_EVENT == "__INTERNAL_EVENT__"
STATE_TIMEOUT_EVENT == "__STATE_TIMEOUT_EVENT__"
\* the empty std::string (no parent, no state)
NoState == ""

(***************************************************************************)
(* The loaded configuration: states ROOT > A > {A1, A2}, ROOT > B          *)
(***************************************************************************)
StateNames == {"ROOT", "A", "A1", "A2", "B"}

ConfigStates ==
  [s \in StateNames |->
     [parent |-> CASE s = "ROOT" -> NoState
                   [] s = "A" -> "ROOT"
                   [] s = "B" -> "ROOT"
                   [] OTHER -> "A",
      timeout |-> 0]]

\* condition descriptors (struct Condition)
CondTemp == [name |-> "temp", range_values |-> << <<1, 1>> >>, duration |-> 0]
CondPower == [name |-> "power", range_values |-> << <<1, 2>> >>, duration |-> 0]

ConditionNames == {"temp", "power"}

\* transition rules in the order the configuration adds them
ConfigRules ==
  << [from |-> "A1", event |-> "E1", to |-> "A2", conditions |-> <<>>, conditionsOperator |-> "AND"],
     [from |-> "A1", event |-> "E1", to |-> "B", conditions |-> <<CondTemp>>, conditionsOperator |-> "AND"],
     [from |-> "A", event |-> "E2", to |-> "B", conditions |-> <<>>, conditionsOperator |-> "AND"],
     [from |-> "A2", event |-> "E2", to |-> "A1", conditions |-> <<CondTemp, CondPower>>, conditionsOperator |-> "OR"],
     [from |-> "B", event |-> "E1", to |-> "A1", conditions |-> <<CondTemp, CondPower>>, conditionsOperator |-> "AND"] >>

\* event names external threads pass to HandleEvent ("E3" has no rule)
EventNames == {"E1", "E2", "E3"}

\* event definitions (struct EventDefinition) in registration order
ConfigEventDefinitions ==
  << [name |-> "HOT", trigger_mode |-> "edge", conditions |-> <<CondTemp>>, conditionsOperator |-> "AND"],
     [name |-> "LVL", trigger_mode |-> "level", conditions |-> <<CondPower>>, conditionsOperator |-> "AND"] >>

RECURSIVE Flatten(_)
Flatten(ss) == IF ss = <<>> THEN <<>> ELSE Head(ss) \o Flatten(Tail(ss))

\* the descriptors AddCondition receives while the configuration is loaded:
\* those of the event definitions, then those of the rules
ConfigConditions ==
  Flatten([i \in 1..Len(ConfigEventDefinitions) |-> ConfigEventDefinitions[i].conditions])
  \o Flatten([i \in 1..Len(ConfigRules) |-> ConfigRules[i].conditions])

Reverse(s) == [i \in 1..Len(s) |-> s[Len(s) + 1 - i]]

VARIABLES
  \* ---- StateManager
  states_,                 \* name -> StateInfo
  current_state_,
  current_state_timeout_,  \* StateManager: state, timeout and expiryTime of the running state timeout
  tt_frame,                \* StateTimeoutLoop's local waitTime
  timeout_log,             \* history: the calls of the state timeout callback
  \* ---- TransitionManager
  transitions_,            \* the multimap as the sequence equal_range walks
  tm_running_,
  \* ---- registered definitions
  event_definitions_,      \* EventHandler::event_definitions_
  all_conditions_,         \* ConditionManager::all_conditions_
  \* ---- ConditionManager
  cm_running_,
  condition_values_,       \* name -> ConditionValue (partial)
  condition_update_queue_,
  condition_update_mutex_, \* "free" or the holder
  timer_queue_,            \* pending DurationCondition entries
  updates,                 \* the batch swapped out by ProcessConditionUpdates
  cl_pc,                   \* position of the condition thread
  now,                     \* steady clock
  \* ---- EventHandler
  eh_running_,
  event_queue_,
  event_mutex_,            \* "free" or the holder
  el_pc,                   \* position of the event thread
  pe,                      \* locals of EventLoop / ProcessEvent
  stop_pc,                 \* position of the caller of EventHandler::Stop
  \* ---- history
  log,                     \* callbacks and steps of the event thread
  next_id,                 \* identity of the next Event object
  applied,                 \* sequence numbers of the applied condition updates
  next_seq,                \* sequence number of the next condition update
  last_enq,                \* name -> value of the last enqueued update
  ext_calls,               \* SetConditionValue calls made by external threads
  trig_log,                \* evaluations of the event definitions by TriggerEvent
  \* ---- calls of the query and configuration interface
  hier_call,               \* the last GetStateHierarchy(from, to, ...) call and its outputs
  check_call,              \* the last CheckConditions call and its result
  value_call,              \* the last GetConditionValue call and its output
  tm_hist,                 \* the rules AddTransition accepted, and whether Clear emptied the table
  sm_running_,             \* StateManager::running_
  tt_pc,                   \* position of the state timeout thread
  gh,                      \* locals of a running GetStateHierarchy(state) call
  last_call,               \* the last call of a configuration method and what it returned
  api_calls,               \* number of calls of the configuration and query methods
  \* ---- life cycle
  component,               \* the object the calling thread owns in the life cycle specification
  timer_pc,                \* position of the timer thread of the ConditionManager
  timer_frame,             \* TimerLoop's locals: nextWaitTime and expiredCondition
  notify_log,              \* history: the NotifyConditionChange calls made so far
  cm_stop,                 \* the caller of ConditionManager::Stop
  initialized_,            \* FiniteStateMachine::initialized_
  running_,                \* FiniteStateMachine::running_
  fsm_threads,             \* the four worker threads of the FiniteStateMachine
  fsm_stop,                \* the caller of FiniteStateMachine::Stop
  state_event_handler_,    \* FiniteStateMachine::state_event_handler_
  \* ---- lock order
  mutex_owner,             \* mutex -> the thread that holds it, or "free"
  lock_plan,               \* thread -> the lock operations left in its current pass
  timer_entries            \* number of entries of timer_queue_ in the lock order specification

smVars == <<states_, current_state_>>
wdVars == <<current_state_timeout_, tt_frame, timeout_log>>
tmVars == <<transitions_, tm_running_>>
defVars == <<event_definitions_, all_conditions_>>
cmVars == <<cm_running_, condition_values_, condition_update_queue_, condition_update_mutex_,
            timer_queue_, updates, cl_pc, applied, next_seq, last_enq, ext_calls, trig_log>>
ehVars == <<eh_running_, event_queue_, event_mutex_, el_pc, pe, stop_pc, log, next_id>>
apiVars == <<hier_call, check_call, value_call, tm_hist, sm_running_, tt_pc, gh, last_call, api_calls>>
cmLifeVars == <<timer_pc, cm_stop, timer_frame, notify_log>>
fsmVars == <<initialized_, running_, fsm_threads, fsm_stop, state_event_handler_>>
lkVars == <<mutex_owner, lock_plan, timer_entries>>
lifeVars == <<component, lkVars, cmLifeVars, fsmVars>>
vars == <<smVars, wdVars, tmVars, defVars, apiVars, lifeVars, cmVars, now, ehVars>>


(***************************************************************************)
(* StateManager: pure queries                                              *)
(***************************************************************************)
RECURSIVE AncestorChain(_)
\* GetStateHierarchy(state): the state and its parents, child first
AncestorChain(state) ==
  IF state = NoState THEN <<>>
  ELSE IF state \notin DOMAIN states_ THEN <<state>>
  ELSE <<state>> \o AncestorChain(states_[state].parent)

GetStateHierarchy(state) == AncestorChain(state)

RECURSIVE CommonRootLen(_, _, _)
\* variant: the reverse iterators are not advanced over the shared part
CommonRootLenNone(fromStates, toStates, k) == k

\* number of positions, counted from the root end, on which two chains agree
CommonRootLen(fromStates, toStates, k) ==
  IF k < Len(fromStates) /\ k < Len(toStates)
     /\ fromStates[Len(fromStates) - k] = toStates[Len(toStates) - k]
  THEN CommonRootLen(fromStates, toStates, k + 1)
  ELSE k

\* variant: the exit list is left in root-first order (no std::reverse)
GetExitEnterPathRootFirst(from, to) ==
  LET fromStates == GetStateHierarchy(from)
      toStates == GetStateHierarchy(to)
      k == CommonRootLen(fromStates, toStates, 0)
  IN [exit_states |-> Reverse(SubSeq(fromStates, 1, Len(fromStates) - k)),
      enter_states |-> Reverse(SubSeq(toStates, 1, Len(toStates) - k))]

\* GetStateHierarchy(from, to, exit_states, enter_states)
GetExitEnterPath(from, to) ==
  LET fromStates == GetStateHierarchy(from)
      toStates == GetStateHierarchy(to)
      k == CommonRootLen(fromStates, toStates, 0)
  IN [exit_states |-> SubSeq(fromStates, 1, Len(fromStates) - k),
      enter_states |-> Reverse(SubSeq(toStates, 1, Len(toStates) - k))]

(***************************************************************************)
(* TransitionManager::FindTransition: the rules stored under the exact key *)
(***************************************************************************)
RECURSIVE SelectRules(_, _, _)
SelectRules(table, state, name) ==
  IF table = <<>> THEN <<>>
  ELSE IF Head(table).from = state /\ Head(table).event = name
       THEN <<Head(table)>> \o SelectRules(Tail(table), state, name)
       ELSE SelectRules(Tail(table), state, name)

\* out_rules; the call returns false iff out_rules is empty
FindTransition(state, name) ==
  IF ~tm_running_ THEN <<>> ELSE SelectRules(transitions_, state, name)

(***************************************************************************)
(* ConditionManager::CheckConditions                                       *)
(***************************************************************************)
\* variant: only the first range of a condition is compared
ValueInRangeFirstOnly(cond, value) ==
  /\ cond.range_values # <<>>
  /\ value >= cond.range_values[1][1]
  /\ value <= cond.range_values[1][2]

\* lines 111-117: the value lies in one of the ranges, bounds included
ValueInRange(cond, value) ==
  \E k \in 1..Len(cond.range_values) :
     value >= cond.range_values[k][1] /\ value <= cond.range_values[k][2]

\* one iteration of the loop: is the condition met at the instant t
ConditionMet(cond, values, t) ==
  LET inRange == ValueInRange(cond, values[cond.name].value)
  IN IF cond.duration > 0 /\ inRange
     THEN t - values[cond.name].lastChangedTime >= cond.duration
     ELSE inRange

RECURSIVE CheckFromOrDefault(_, _, _, _, _)
\* variant: the loop ends with return true instead of return (op == "AND")
CheckFromOrDefault(conditions, op, values, t, i) ==
  IF i > Len(conditions) THEN TRUE
  ELSE LET met == ConditionMet(conditions[i], values, t)
       IN IF op = "AND" /\ ~met THEN FALSE
          ELSE IF op = "OR" /\ met THEN TRUE
          ELSE CheckFromOrDefault(conditions, op, values, t, i + 1)

RECURSIVE CheckFrom(_, _, _, _, _)
\* the loop over the conditions from position i on, with its early returns
CheckFrom(conditions, op, values, t, i) ==
  IF i > Len(conditions) THEN op = "AND"
  ELSE LET met == ConditionMet(conditions[i], values, t)
       IN IF op = "AND" /\ ~met THEN FALSE
          ELSE IF op = "OR" /\ met THEN TRUE
          ELSE CheckFrom(conditions, op, values, t, i + 1)

\* the calls on which CheckConditions throws std::invalid_argument
CheckConditionsThrows(conditions, op) ==
  /\ conditions # <<>>
  /\ \/ op \notin {"AND", "OR"}
     \/ \E i \in 1..Len(conditions) :
          /\ conditions[i].name \notin DOMAIN condition_values_
          /\ \A j \in 1..(i - 1) :
               /\ conditions[j].name \in DOMAIN condition_values_
               /\ (op = "AND") = ConditionMet(conditions[j], condition_values_, now)

\* the boolean CheckConditions returns when it does not throw
CheckConditions(conditions, op) ==
  IF conditions = <<>> THEN TRUE
  ELSE CheckFrom(conditions, op, condition_values_, now, 1)

\* variant: a name without stored value reads as 1
GetConditionValueSet(name) ==
  IF name \in DOMAIN condition_values_ THEN condition_values_[name].value ELSE 1

\* GetConditionValue: 0 for a name that has no stored value
GetConditionValue(name) ==
  IF name \in DOMAIN condition_values_ THEN condition_values_[name].value ELSE 0


(***************************************************************************)
(* Initial state: the configuration is loaded and the TransitionManager,   *)
(* which has no thread, is started; no worker thread runs yet.             *)
(* transitions_ is a std::unordered_multimap: the order in which           *)
(* equal_range walks the rules of one key is the order of insertion or its *)
(* reverse, depending on the standard library.                             *)
(***************************************************************************)
NoEvent == [name |-> "", id |-> 0]

\* no GetStateHierarchy(from, to, ...) call was made yet
NoCall == [from |-> NoState, to |-> NoState, exit_states |-> <<>>, enter_states |-> <<>>]

\* no GetStateHierarchy(state) call is running
NoWalk == [pc |-> "idle", state |-> NoState, current |-> NoState, hierarchy |-> <<>>]

\* no configuration method was called yet
NoApiCall == [op |-> "", ret |-> "void", running |-> FALSE]

\* no Stop call is running; n counts the calls, entered_running is running_ as the call found it
NoStop == [pc |-> "idle", i |-> 0, n |-> 0, entered_running |-> FALSE]

\* the worker threads of the FiniteStateMachine, in the order Start creates them
FsmThreads == {"event_thread_", "event_trigger_thread_", "condition_thread_", "timer_thread_"}

\* the mutexes of the components and of the FiniteStateMachine
Mutexes == {"state_mutex_", "timeout_mutex_", "mutex_", "condition_values_mutex_",
            "condition_update_mutex_", "timer_mutex_", "callback_mutex_", "event_mutex_",
            "event_trigger_mutex_"}

\* the worker threads and one thread that calls the public methods
LockThreads == FsmThreads \cup {"timeout_thread_", "caller"}

\* the callbacks a StateEventHandler holds
CallbackSlots == {"transition", "pre_event", "enter_state", "exit_state", "post_event"}

\* a null shared_ptr<StateEventHandler>
NullHandler == [null |-> TRUE, callbacks |-> [slot \in CallbackSlots |-> ""]]

\* no CheckConditions call was made yet
NoCheck == [conditions |-> <<>>, op |-> "", result |-> FALSE, threw |-> FALSE]

\* no duration timer, and the locals of TimerLoop before its first iteration
NoTimer == [name |-> "", value |-> 0, duration |-> 0, expiryTime |-> 0, seq |-> 0]
NoTimerFrame == [nextWaitTime |-> 0, expiredCondition |-> NoTimer]

\* no state timeout is running (current_state_timeout_ after clear())
NoTimeout == [state |-> NoState, timeout |-> 0, enterTime |-> 0, expiryTime |-> 0]

\* no AddTransition call was made yet
NoRules == [added |-> {}, cleared |-> FALSE]

\* no GetConditionValue call was made yet
NoValueCall == [name |-> "", value |-> 0]

NoFrame ==
  [event |-> NoEvent, current_state |-> NoState, rules |-> <<>>, idx |-> 0,
   eventHandled |-> FALSE, exitStates |-> <<>>, enterStates |-> <<>>]

\* ConditionValue records as AddCondition creates them, with values already applied
InitialValues(v) ==
  [n \in ConditionNames |-> [value |-> v[n], lastUpdateTime |-> 0, lastChangedTime |-> 0]]

\* no worker thread was started and no call was made
InitStopped ==
  /\ sm_running_ = FALSE
  /\ tt_pc = "none"
  /\ timer_pc = "none"
  /\ current_state_timeout_ = NoTimeout
  /\ cm_running_ = FALSE
  /\ cl_pc = "none"
  /\ eh_running_ = FALSE
  /\ el_pc = "none"

\* the FiniteStateMachine object after its constructor
InitFsmIdle ==
  /\ initialized_ = FALSE
  /\ running_ = FALSE
  /\ fsm_threads = [t \in FsmThreads |-> "none"]
  /\ fsm_stop = NoStop
  /\ state_event_handler_ = NullHandler

\* no call was made and nothing is queued
InitCalls ==
  /\ mutex_owner = [m \in Mutexes |-> "free"]
  /\ lock_plan = [t \in LockThreads |-> <<>>]
  /\ timer_entries = 0
  /\ hier_call = NoCall
  /\ check_call = NoCheck
  /\ value_call = NoValueCall
  /\ tm_hist = NoRules
  /\ gh = NoWalk
  /\ last_call = NoApiCall
  /\ api_calls = 0
  /\ timer_frame = NoTimerFrame
  /\ tt_frame = [waitTime |-> 0]
  /\ timeout_log = <<>>
  /\ notify_log = <<>>
  /\ cm_stop = NoStop
  /\ condition_update_queue_ = <<>>
  /\ condition_update_mutex_ = "free"
  /\ timer_queue_ = <<>>
  /\ updates = <<>>
  /\ event_queue_ = <<>>
  /\ event_mutex_ = "free"
  /\ pe = NoFrame
  /\ stop_pc = "idle"
  /\ log = <<>>
  /\ next_id = 1
  /\ applied = <<>>
  /\ next_seq = 1
  /\ last_enq = [n \in {} |-> 0]
  /\ ext_calls = 0
  /\ trig_log = <<>>

InitQuiet == InitFsmIdle /\ InitCalls

InitIdle == InitStopped /\ InitQuiet

InitCommon ==
  /\ component = "components"
  /\ states_ = ConfigStates
  /\ current_state_ = "A1"
  /\ transitions_ \in {ConfigRules, Reverse(ConfigRules)}
  /\ tm_running_ = TRUE
  /\ event_definitions_ = ConfigEventDefinitions
  /\ all_conditions_ = ConfigConditions
  /\ InitIdle

Init ==
  /\ InitCommon
  /\ now = 0
  /\ \E v \in [ConditionNames -> 0..1] : condition_values_ = InitialValues(v)

(***************************************************************************)
(* EventHandler: Start, Stop, HandleEvent                                  *)
(***************************************************************************)
\* condition_variable::notify_one / notify_all with the event thread as only waiter
NotifyEventCv(pc) == IF pc = "parked" THEN "woken" ELSE pc

EH_Start ==
  /\ ~eh_running_
  /\ el_pc = "none"
  /\ eh_running_' = TRUE
  /\ el_pc' = "while"
  /\ UNCHANGED <<smVars, wdVars, tmVars, defVars, apiVars, lifeVars, cmVars, now, event_queue_, event_mutex_, pe, stop_pc, log,
                 next_id>>

\* Stop, lines 73-76: return when not running, else clear the flag
EH_StopEnter ==
  /\ stop_pc = "idle"
  /\ IF ~eh_running_
     THEN /\ stop_pc' = "returned"
          /\ UNCHANGED eh_running_
     ELSE /\ eh_running_' = FALSE
          /\ stop_pc' = "notify"
  /\ UNCHANGED <<smVars, wdVars, tmVars, defVars, apiVars, lifeVars, cmVars, now, event_queue_, event_mutex_, el_pc, pe, log,
                 next_id>>

\* Stop, line 77: notify_all without holding event_mutex_
EH_StopNotify ==
  /\ stop_pc = "notify"
  /\ el_pc' = NotifyEventCv(el_pc)
  /\ stop_pc' = "join"
  /\ UNCHANGED <<smVars, wdVars, tmVars, defVars, apiVars, lifeVars, cmVars, now, eh_running_, event_queue_, event_mutex_, pe,
                 log, next_id>>

\* Stop, lines 78-80: join returns once the event thread has left EventLoop
EH_StopJoin ==
  /\ stop_pc = "join"
  /\ el_pc = "exited"
  /\ stop_pc' = "returned"
  /\ UNCHANGED <<smVars, wdVars, tmVars, defVars, apiVars, lifeVars, cmVars, now, eh_running_, event_queue_, event_mutex_, el_pc,
                 pe, log, next_id>>

\* the push of HandleEvent
PushEvent(q, e) == Append(q, e)

\* HandleEvent called by an external thread: push and notify_one under event_mutex_
HandleEvent(name) ==
  /\ next_id <= MaxEvents
  /\ event_mutex_ = "free"
  /\ event_queue_' = PushEvent(event_queue_, [name |-> name, id |-> next_id])
  /\ next_id' = next_id + 1
  /\ el_pc' = NotifyEventCv(el_pc)
  /\ UNCHANGED <<smVars, wdVars, tmVars, defVars, apiVars, lifeVars, cmVars, now, eh_running_, event_mutex_, pe, stop_pc, log>>


(***************************************************************************)
(* EventHandler::EventLoop, the event-consumer thread                      *)
(***************************************************************************)
\* the entry the event thread appends to the history; cur is what
\* GetCurrentState returns at that moment
LogEntry(cb, ok, to, path) ==
  [cb |-> cb, id |-> pe.event.id, name |-> pe.event.name, cur |-> current_state_,
   ok |-> ok, to |-> to, path |-> path]

\* a consumer that takes the newest event instead of the oldest
DequeueEventNewest(q) == [event |-> q[Len(q)], rest |-> SubSeq(q, 1, Len(q) - 1)]

\* a consumer that reads the front event and leaves it in the queue
DequeueEventKept(q) == [event |-> Head(q), rest |-> q]

\* event_queue_.front() and pop()
DequeueEvent(q) == [event |-> Head(q), rest |-> Tail(q)]

\* while (running_)
EL_While ==
  /\ el_pc = "while"
  /\ el_pc' = IF eh_running_ THEN "lock" ELSE "exited"
  /\ UNCHANGED <<smVars, wdVars, tmVars, defVars, apiVars, lifeVars, cmVars, now, eh_running_, event_queue_, event_mutex_, pe,
                 stop_pc, log, next_id>>

\* std::unique_lock<std::mutex> lock(event_mutex_)
EL_Lock ==
  /\ el_pc = "lock"
  /\ event_mutex_ = "free"
  /\ event_mutex_' = "loop"
  /\ el_pc' = "pred"
  /\ UNCHANGED <<smVars, wdVars, tmVars, defVars, apiVars, lifeVars, cmVars, now, eh_running_, event_queue_, pe, stop_pc, log,
                 next_id>>

\* the predicate of event_cv_.wait, evaluated under the lock
EL_Pred ==
  /\ el_pc = "pred"
  /\ el_pc' = IF ~eh_running_ \/ event_queue_ # <<>> THEN "after_wait" ELSE "block"
  /\ UNCHANGED <<smVars, wdVars, tmVars, defVars, apiVars, lifeVars, cmVars, now, eh_running_, event_queue_, event_mutex_, pe,
                 stop_pc, log, next_id>>

\* the predicate was false: wait releases the mutex and blocks, atomically
EL_Block ==
  /\ el_pc = "block"
  /\ el_pc' = "parked"
  /\ event_mutex_' = "free"
  /\ UNCHANGED <<smVars, wdVars, tmVars, defVars, apiVars, lifeVars, cmVars, now, eh_running_, event_queue_, pe, stop_pc, log,
                 next_id>>

\* a spurious wakeup, which condition_variable::wait permits
EL_Spurious ==
  /\ el_pc = "parked"
  /\ el_pc' = "woken"
  /\ UNCHANGED <<smVars, wdVars, tmVars, defVars, apiVars, lifeVars, cmVars, now, eh_running_, event_queue_, event_mutex_, pe,
                 stop_pc, log, next_id>>

\* woken: take the mutex again and evaluate the predicate again
EL_Wake ==
  /\ el_pc = "woken"
  /\ event_mutex_ = "free"
  /\ event_mutex_' = "loop"
  /\ el_pc' = "pred"
  /\ UNCHANGED <<smVars, wdVars, tmVars, defVars, apiVars, lifeVars, cmVars, now, eh_running_, event_queue_, pe, stop_pc, log,
                 next_id>>

\* lines 159-169: break, or pop the front event, or continue; the lock is released
EL_AfterWait ==
  /\ el_pc = "after_wait"
  /\ event_mutex_' = "free"
  /\ IF ~eh_running_
     THEN /\ el_pc' = "exited"
          /\ UNCHANGED <<event_queue_, pe>>
     ELSE IF event_queue_ # <<>>
     THEN /\ pe' = [NoFrame EXCEPT !.event = DequeueEvent(event_queue_).event]
          /\ event_queue_' = DequeueEvent(event_queue_).rest
          /\ el_pc' = "pe_begin"
     ELSE /\ el_pc' = "while"
          /\ UNCHANGED <<event_queue_, pe>>
  /\ UNCHANGED <<smVars, wdVars, tmVars, defVars, apiVars, lifeVars, cmVars, now, eh_running_, stop_pc, log, next_id>>

(***************************************************************************)
(* EventHandler::ProcessEvent, run by the event thread for each event      *)
(***************************************************************************)
\* line 101: State current_state = state_manager_->GetCurrentState()
PE_GetState ==
  /\ el_pc = "pe_begin"
  /\ pe' = [pe EXCEPT !.current_state = current_state_]
  /\ log' = Append(log, LogEntry("dequeue", TRUE, NoState, <<>>))
  /\ el_pc' = "pe_pre"
  /\ UNCHANGED <<smVars, wdVars, tmVars, defVars, apiVars, lifeVars, cmVars, now, eh_running_, event_queue_, event_mutex_,
                 stop_pc, next_id>>

\* a ProcessEvent that ignores the result of OnPreEvent
AfterPreEventIgnored(allow) == "pe_find"

\* where ProcessEvent continues after OnPreEvent returned allow
AfterPreEvent(allow) == IF allow THEN "pe_find" ELSE "pe_veto"

\* line 104: OnPreEvent; the callback of the application returns either value
PE_PreEvent ==
  /\ el_pc = "pe_pre"
  /\ \E allow \in BOOLEAN :
       /\ log' = Append(log, LogEntry("pre", allow, NoState, <<>>))
       /\ el_pc' = AfterPreEvent(allow)
  /\ UNCHANGED <<smVars, wdVars, tmVars, defVars, apiVars, lifeVars, cmVars, now, eh_running_, event_queue_, event_mutex_, pe,
                 stop_pc, next_id>>

\* lines 105-108: OnPostEvent(event, false) and return
PE_VetoPost ==
  /\ el_pc = "pe_veto"
  /\ log' = Append(log, LogEntry("post", FALSE, NoState, <<>>))
  /\ pe' = NoFrame
  /\ el_pc' = "while"
  /\ UNCHANGED <<smVars, wdVars, tmVars, defVars, apiVars, lifeVars, cmVars, now, eh_running_, event_queue_, event_mutex_,
                 stop_pc, next_id>>

\* line 115: FindTransition(current_state, event, rules); when it returns
\* false ProcessEvent ends
PE_Find ==
  /\ el_pc = "pe_find"
  /\ LET rules == FindTransition(pe.current_state, pe.event.name)
     IN /\ log' = Append(log, LogEntry("find", rules # <<>>, NoState, <<>>))
        /\ IF rules = <<>>
           THEN /\ pe' = NoFrame
                /\ el_pc' = "while"
           ELSE /\ pe' = [pe EXCEPT !.rules = rules, !.idx = 1]
                /\ el_pc' = "pe_rule"
  /\ UNCHANGED <<smVars, wdVars, tmVars, defVars, apiVars, lifeVars, cmVars, now, eh_running_, event_queue_, event_mutex_,
                 stop_pc, next_id>>

\* lines 116-124: the next rule of the loop: CheckConditions and, when it
\* holds, GetStateHierarchy(current_state, rule.to, exitStates, enterStates)
PE_Rule ==
  /\ el_pc = "pe_rule"
  /\ pe.idx <= Len(pe.rules)
  /\ LET rule == pe.rules[pe.idx]
     IN IF CheckConditionsThrows(rule.conditions, rule.conditionsOperator)
        THEN /\ el_pc' = "terminated"
             /\ UNCHANGED <<pe, log>>
        ELSE LET sat == CheckConditions(rule.conditions, rule.conditionsOperator)
                 path == GetExitEnterPath(pe.current_state, rule.to)
             IN /\ log' = Append(log, LogEntry("check", sat, rule.to, <<>>))
                /\ IF sat
                   THEN /\ pe' = [pe EXCEPT !.exitStates = path.exit_states,
                                            !.enterStates = path.enter_states]
                        /\ el_pc' = "pe_transition"
                   ELSE /\ pe' = [pe EXCEPT !.idx = pe.idx + 1]
                        /\ el_pc' = "pe_rule"
  /\ UNCHANGED <<smVars, wdVars, tmVars, defVars, apiVars, lifeVars, cmVars, now, eh_running_, event_queue_, event_mutex_,
                 stop_pc, next_id>>

\* a ProcessEvent that commits the target state before the exit callback
TransitionStepsCommitFirst == <<"pe_transition", "pe_commit", "pe_exit", "pe_enter">>

\* lines 126-141: the statements ProcessEvent runs for a rule whose conditions hold
TransitionSteps == <<"pe_transition", "pe_exit", "pe_commit", "pe_enter">>

StepAfter(pc) ==
  LET i == CHOOSE k \in 1..Len(TransitionSteps) : TransitionSteps[k] = pc
  IN IF i = Len(TransitionSteps) THEN "pe_rule" ELSE TransitionSteps[i + 1]

\* line 130: OnTransition(exitStates, event, enterStates)
PE_OnTransition ==
  /\ el_pc = "pe_transition"
  /\ log' = Append(log, LogEntry("transition", TRUE, pe.rules[pe.idx].to, pe.exitStates))
  /\ el_pc' = StepAfter("pe_transition")
  /\ UNCHANGED <<smVars, wdVars, tmVars, defVars, apiVars, lifeVars, cmVars, now, eh_running_, event_queue_, event_mutex_, pe,
                 stop_pc, next_id>>

\* line 131: OnExitState(exitStates)
PE_OnExitState ==
  /\ el_pc = "pe_exit"
  /\ log' = Append(log, LogEntry("exit", TRUE, pe.rules[pe.idx].to, pe.exitStates))
  /\ el_pc' = StepAfter("pe_exit")
  /\ UNCHANGED <<smVars, wdVars, tmVars, defVars, apiVars, lifeVars, cmVars, now, eh_running_, event_queue_, event_mutex_, pe,
                 stop_pc, next_id>>

\* a SetState that stores the name without looking it up
SetStateUnchecked(state) == state

\* StateManager::SetState: false and no change for an unregistered state
SetState(state) == IF state \in DOMAIN states_ THEN state ELSE current_state_

\* lines 102-116: current_state_timeout_ after SetState(state)
TimeoutAfter(state) ==
  IF state \notin DOMAIN states_ THEN current_state_timeout_
  ELSE IF states_[state].timeout > 0
       THEN [state |-> state, timeout |-> states_[state].timeout, enterTime |-> now,
             expiryTime |-> now + states_[state].timeout]
       ELSE [current_state_timeout_ EXCEPT !.state = NoState, !.timeout = 0]

\* timeout_mutex_ is not held by the timeout thread
TimeoutMutexFree == tt_pc \notin {"pred", "block", "after_wait", "check", "timed_pred"}

\* notify_one on timeout_cv_ with the timeout thread as only waiter
NotifyTimeoutCv(pc) ==
  IF pc = "parked" THEN "woken" ELSE IF pc = "timed_parked" THEN "timed_woken" ELSE pc

\* line 110: notify_one when the new state has a timeout
TimeoutThreadAfter(state) ==
  IF state \in DOMAIN states_ /\ states_[state].timeout > 0
  THEN NotifyTimeoutCv(tt_pc) ELSE tt_pc

\* line 135: state_manager_->SetState(rule.to)
PE_SetState ==
  /\ el_pc = "pe_commit"
  /\ TimeoutMutexFree
  /\ current_state_' = SetState(pe.rules[pe.idx].to)
  /\ current_state_timeout_' = TimeoutAfter(pe.rules[pe.idx].to)
  /\ tt_pc' = TimeoutThreadAfter(pe.rules[pe.idx].to)
  /\ log' = Append(log, LogEntry("commit", TRUE, pe.rules[pe.idx].to, <<>>))
  /\ el_pc' = StepAfter("pe_commit")
  /\ UNCHANGED <<states_, tt_frame, timeout_log, tmVars, defVars, hier_call, check_call,
                 value_call, tm_hist, sm_running_, gh, last_call, api_calls, lifeVars, cmVars,
                 now, eh_running_, event_queue_, event_mutex_, pe, stop_pc, next_id>>

\* lines 139-141: OnEnterState(enterStates); eventHandled = true; next rule
PE_OnEnterState ==
  /\ el_pc = "pe_enter"
  /\ log' = Append(log, LogEntry("enter", TRUE, pe.rules[pe.idx].to, pe.enterStates))
  /\ pe' = [pe EXCEPT !.eventHandled = TRUE, !.idx = pe.idx + 1]
  /\ el_pc' = StepAfter("pe_enter")
  /\ UNCHANGED <<smVars, wdVars, tmVars, defVars, apiVars, lifeVars, cmVars, now, eh_running_, event_queue_, event_mutex_,
                 stop_pc, next_id>>

\* lines 146-148: after the loop, OnPostEvent(event, eventHandled)
PE_Post ==
  /\ el_pc = "pe_rule"
  /\ pe.idx > Len(pe.rules)
  /\ log' = Append(log, LogEntry("post", pe.eventHandled, NoState, <<>>))
  /\ pe' = NoFrame
  /\ el_pc' = "while"
  /\ UNCHANGED <<smVars, wdVars, tmVars, defVars, apiVars, lifeVars, cmVars, now, eh_running_, event_queue_, event_mutex_,
                 stop_pc, next_id>>

(***************************************************************************)
(* ConditionManager: Start, SetConditionValue                              *)
(***************************************************************************)
\* notify_one on condition_update_cv_ with the condition thread as only waiter
NotifyConditionCv(pc) == IF pc = "parked" THEN "woken" ELSE pc

\* notify on timer_cv_ with the timer thread as only waiter, in wait or in wait_until
NotifyTimerCv(pc) ==
  IF pc = "parked" THEN "woken" ELSE IF pc = "timed_parked" THEN "timed_woken" ELSE pc

\* timer_mutex_ is not held by the timer thread
TimerMutexFree == timer_pc \notin {"pred", "block", "after_wait", "top"}

CM_Start ==
  /\ ~cm_running_
  /\ cl_pc = "none"
  /\ timer_pc = "none"
  /\ cm_running_' = TRUE
  /\ cl_pc' = "while"
  /\ timer_pc' = "while"
  /\ UNCHANGED <<smVars, wdVars, tmVars, defVars, apiVars, component, lkVars, timer_frame, notify_log, cm_stop, fsmVars, now, ehVars,
                 condition_values_,
                 condition_update_queue_, condition_update_mutex_, timer_queue_, updates,
                 applied, next_seq, last_enq, ext_calls, trig_log>>

\* condition_update_queue_.push({name, value, now})
PushUpdate(q, u) == Append(q, u)

\* the ConditionUpdateEvent of a call, with its position in the order of calls
UpdateEvent(name, value, seq) ==
  [name |-> name, value |-> value, updateTime |-> now, seq |-> seq]

\* last_enq after an update of name to value has been enqueued
Enqueued(le, name, value) ==
  [n \in DOMAIN le \cup {name} |-> IF n = name THEN value ELSE le[n]]

\* SetConditionValue called by an external thread that makes at most limit calls
SetConditionValueCall(name, value, limit) ==
  /\ ext_calls < limit
  /\ condition_update_mutex_ = "free"
  /\ condition_update_queue_' =
       PushUpdate(condition_update_queue_, UpdateEvent(name, value, next_seq))
  /\ next_seq' = next_seq + 1
  /\ last_enq' = Enqueued(last_enq, name, value)
  /\ ext_calls' = ext_calls + 1
  /\ cl_pc' = NotifyConditionCv(cl_pc)
  /\ UNCHANGED <<smVars, wdVars, tmVars, defVars, apiVars, lifeVars, now, ehVars, cm_running_, condition_values_,
                 condition_update_mutex_, timer_queue_, updates, applied, trig_log>>

SetConditionValue(name, value) == SetConditionValueCall(name, value, MaxUpdates)

\* the steady clock advances
Tick ==
  /\ \/ now < MaxTime
     \/ \E i \in 1..Len(timer_queue_) : now < timer_queue_[i].expiryTime
  /\ now' = now + 1
  /\ UNCHANGED <<smVars, wdVars, tmVars, defVars, apiVars, lifeVars, cmVars, ehVars>>

(***************************************************************************)
(* EventHandler::TriggerEvent, the condition change callback               *)
(***************************************************************************)
\* variant: a definition fires only when its flag is 0, whatever its mode
TriggerDefinitionEdgeOnly(def, acc) ==
  LET flag == GetConditionValue(def.name)
      holds == CheckConditions(def.conditions, def.conditionsOperator)
      setFlag(a, v) ==
        [a EXCEPT !.updq = PushUpdate(a.updq, UpdateEvent(def.name, v, a.seq)),
                  !.seq = a.seq + 1,
                  !.le = Enqueued(a.le, def.name, v)]
      fire(a, name) ==
        [a EXCEPT !.evq = PushEvent(a.evq, [name |-> name, id |-> a.id]),
                  !.id = a.id + 1]
      note(a, fired) ==
        [a EXCEPT !.tl = Append(a.tl, [def |-> def.name, holds |-> holds, flag |-> flag,
                                       fired |-> fired])]
  IN IF holds
     THEN IF flag = 0
          THEN note(fire(setFlag(acc, 1), def.name), def.name)
          ELSE note(acc, "")
     ELSE IF flag = 1
          THEN IF def.trigger_mode = "edge"
               THEN note(fire(setFlag(acc, 0), def.name \o "_RESET"), def.name \o "_RESET")
               ELSE note(setFlag(acc, 0), "")
          ELSE note(acc, "")

\* the effect of one event definition on the two queues; acc carries the
\* queues, the counters and the history through the loop over the definitions
TriggerDefinition(def, acc) ==
  LET flag == GetConditionValue(def.name)
      holds == CheckConditions(def.conditions, def.conditionsOperator)
      setFlag(a, v) ==
        [a EXCEPT !.updq = PushUpdate(a.updq, UpdateEvent(def.name, v, a.seq)),
                  !.seq = a.seq + 1,
                  !.le = Enqueued(a.le, def.name, v)]
      fire(a, name) ==
        [a EXCEPT !.evq = PushEvent(a.evq, [name |-> name, id |-> a.id]),
                  !.id = a.id + 1]
      note(a, fired) ==
        [a EXCEPT !.tl = Append(a.tl, [def |-> def.name, holds |-> holds, flag |-> flag,
                                       fired |-> fired])]
  IN IF holds
     THEN IF flag = 0
          THEN note(fire(setFlag(acc, 1), def.name), def.name)
          ELSE IF def.trigger_mode = "level"
               THEN note(fire(acc, def.name), def.name)
               ELSE note(acc, "")
     ELSE IF flag = 1
          THEN IF def.trigger_mode = "edge"
               THEN note(fire(setFlag(acc, 0), def.name \o "_RESET"), def.name \o "_RESET")
               ELSE note(setFlag(acc, 0), "")
          ELSE note(acc, "")

RECURSIVE TriggerDefinitions(_, _)
TriggerDefinitions(defs, acc) ==
  IF defs = <<>> THEN acc
  ELSE TriggerDefinitions(Tail(defs), TriggerDefinition(Head(defs), acc))

\* the queues after TriggerEvent: every definition in registration order,
\* then the internal event
TriggerEvent ==
  LET acc0 == [updq |-> condition_update_queue_, seq |-> next_seq, le |-> last_enq,
               evq |-> event_queue_, id |-> next_id, tl |-> trig_log]
      acc1 == TriggerDefinitions(event_definitions_, acc0)
  IN [acc1 EXCEPT !.evq = PushEvent(acc1.evq, [name |-> INTERNAL_EVENT, id |-> acc1.id]),
                  !.id = acc1.id + 1]

(***************************************************************************)
(* ConditionManager::ConditionLoop and ProcessConditionUpdates             *)
(***************************************************************************)
CL_While ==
  /\ cl_pc = "while"
  /\ cl_pc' = IF cm_running_ THEN "lock" ELSE "exited"
  /\ UNCHANGED <<smVars, wdVars, tmVars, defVars, apiVars, lifeVars, now, ehVars, cm_running_, condition_values_,
                 condition_update_queue_, condition_update_mutex_, timer_queue_, updates,
                 applied, next_seq, last_enq, ext_calls, trig_log>>

CL_Lock ==
  /\ cl_pc = "lock"
  /\ condition_update_mutex_ = "free"
  /\ condition_update_mutex_' = "loop"
  /\ cl_pc' = "pred"
  /\ UNCHANGED <<smVars, wdVars, tmVars, defVars, apiVars, lifeVars, now, ehVars, cm_running_, condition_values_,
                 condition_update_queue_, timer_queue_, updates, applied, next_seq,
                 last_enq, ext_calls, trig_log>>

\* the predicate of condition_update_cv_.wait
CL_Pred ==
  /\ cl_pc = "pred"
  /\ cl_pc' = IF ~cm_running_ \/ condition_update_queue_ # <<>> THEN "after_wait" ELSE "block"
  /\ UNCHANGED <<smVars, wdVars, tmVars, defVars, apiVars, lifeVars, now, ehVars, cm_running_, condition_values_,
                 condition_update_queue_, condition_update_mutex_, timer_queue_, updates,
                 applied, next_seq, last_enq, ext_calls, trig_log>>

CL_Block ==
  /\ cl_pc = "block"
  /\ cl_pc' = "parked"
  /\ condition_update_mutex_' = "free"
  /\ UNCHANGED <<smVars, wdVars, tmVars, defVars, apiVars, lifeVars, now, ehVars, cm_running_, condition_values_,
                 condition_update_queue_, timer_queue_, updates, applied, next_seq,
                 last_enq, ext_calls, trig_log>>

\* a spurious wakeup, or the notify_one of a SetConditionValue arriving late
CL_Spurious ==
  /\ cl_pc = "parked"
  /\ cl_pc' = "woken"
  /\ UNCHANGED <<smVars, wdVars, tmVars, defVars, apiVars, lifeVars, now, ehVars, cm_running_, condition_values_,
                 condition_update_queue_, condition_update_mutex_, timer_queue_, updates,
                 applied, next_seq, last_enq, ext_calls, trig_log>>

CL_Wake ==
  /\ cl_pc = "woken"
  /\ condition_update_mutex_ = "free"
  /\ condition_update_mutex_' = "loop"
  /\ cl_pc' = "pred"
  /\ UNCHANGED <<smVars, wdVars, tmVars, defVars, apiVars, lifeVars, now, ehVars, cm_running_, condition_values_,
                 condition_update_queue_, timer_queue_, updates, applied, next_seq,
                 last_enq, ext_calls, trig_log>>

\* lines 185-190: break when stopped, else leave the lock scope
CL_AfterWait ==
  /\ cl_pc = "after_wait"
  /\ condition_update_mutex_' = "free"
  /\ cl_pc' = IF ~cm_running_ THEN "exited" ELSE "swap"
  /\ UNCHANGED <<smVars, wdVars, tmVars, defVars, apiVars, lifeVars, now, ehVars, cm_running_, condition_values_,
                 condition_update_queue_, timer_queue_, updates, applied, next_seq,
                 last_enq, ext_calls, trig_log>>

\* ProcessConditionUpdates, lines 262-266: updates.swap(condition_update_queue_)
CL_Swap ==
  /\ cl_pc = "swap"
  /\ condition_update_mutex_ = "free"
  /\ updates' = condition_update_queue_
  /\ condition_update_queue_' = <<>>
  /\ cl_pc' = "apply"
  /\ UNCHANGED <<smVars, wdVars, tmVars, defVars, apiVars, lifeVars, now, ehVars, cm_running_, condition_values_,
                 condition_update_mutex_, timer_queue_, applied, next_seq, last_enq,
                 ext_calls, trig_log>>

\* a consumer that applies the newest update of the batch first
NextUpdateNewest(batch) ==
  [update |-> batch[Len(batch)], rest |-> SubSeq(batch, 1, Len(batch) - 1)]

\* updates.front(), and the batch after updates.pop()
NextUpdate(batch) == [update |-> Head(batch), rest |-> Tail(batch)]

RECURSIVE ScanConditions(_, _, _)
\* lines 284-301: the loop over all_conditions_ for an update that changed the
\* value; valueInRange is not reset between descriptors and the loop ends at
\* the first descriptor that is duration-gated while valueInRange is set
ScanConditions(conds, update, inRange) ==
  IF conds = <<>> THEN [valueInRange |-> inRange, hasDurationCondition |-> FALSE, duration |-> 0]
  ELSE LET cond == Head(conds)
       IN IF cond.name # update.name
          THEN ScanConditions(Tail(conds), update, inRange)
          ELSE LET r == inRange \/ ValueInRange(cond, update.value)
               IN IF cond.duration > 0 /\ r
                  THEN [valueInRange |-> r, hasDurationCondition |-> TRUE,
                        duration |-> cond.duration]
                  ELSE ScanConditions(Tail(conds), update, r)

\* variant: lastChangedTime is set by every update, changed or not
ApplyUpdateAlwaysRestart(update) ==
  IF update.name \notin DOMAIN condition_values_
  THEN [changed |-> FALSE, valueInRange |-> FALSE, hasDurationCondition |-> FALSE,
        duration |-> 0,
        value |-> [value |-> update.value, lastUpdateTime |-> update.updateTime,
                   lastChangedTime |-> update.updateTime]]
  ELSE LET old == condition_values_[update.name]
           changed == old.value # update.value
           scan == IF changed THEN ScanConditions(all_conditions_, update, FALSE)
                   ELSE [valueInRange |-> FALSE, hasDurationCondition |-> FALSE,
                         duration |-> 0]
       IN [changed |-> changed, valueInRange |-> scan.valueInRange,
           hasDurationCondition |-> scan.hasDurationCondition, duration |-> scan.duration,
           value |-> [value |-> update.value, lastUpdateTime |-> update.updateTime,
                      lastChangedTime |-> update.updateTime]]

\* lines 272-306: the outcome of applying one update to condition_values_
ApplyUpdate(update) ==
  IF update.name \notin DOMAIN condition_values_
  THEN [changed |-> FALSE, valueInRange |-> FALSE, hasDurationCondition |-> FALSE,
        duration |-> 0,
        value |-> [value |-> update.value, lastUpdateTime |-> update.updateTime,
                   lastChangedTime |-> update.updateTime]]
  ELSE LET old == condition_values_[update.name]
           changed == old.value # update.value
           scan == IF changed THEN ScanConditions(all_conditions_, update, FALSE)
                   ELSE [valueInRange |-> FALSE, hasDurationCondition |-> FALSE,
                         duration |-> 0]
       IN [changed |-> changed, valueInRange |-> scan.valueInRange,
           hasDurationCondition |-> scan.hasDurationCondition, duration |-> scan.duration,
           value |-> [value |-> update.value, lastUpdateTime |-> update.updateTime,
                      lastChangedTime |-> IF changed THEN update.updateTime
                                          ELSE old.lastChangedTime]]

\* one iteration of the while loop, up to the notification: the front update
\* is written to condition_values_ and, under timer_mutex_, a duration timer
\* is pushed when needed (seq names the update in the histories)
CL_Apply ==
  /\ cl_pc = "apply"
  /\ updates # <<>>
  /\ LET update == NextUpdate(updates).update
         res == ApplyUpdate(update)
     IN /\ condition_values_' =
             [n \in DOMAIN condition_values_ \cup {update.name} |->
                IF n = update.name THEN res.value ELSE condition_values_[n]]
        /\ applied' = Append(applied, [seq |-> update.seq, name |-> update.name,
                                        value |-> update.value,
                                        updateTime |-> update.updateTime])
        /\ IF res.hasDurationCondition
           THEN /\ TimerMutexFree
                /\ timer_queue_' =
                     Append(timer_queue_,
                            [name |-> update.name, value |-> update.value,
                             duration |-> res.duration,
                             expiryTime |-> update.updateTime + res.duration,
                             seq |-> update.seq])
                /\ timer_pc' = NotifyTimerCv(timer_pc)
                /\ updates' = NextUpdate(updates).rest
                /\ cl_pc' = "apply"
           ELSE /\ UNCHANGED <<timer_queue_, timer_pc, updates>>
                /\ cl_pc' = "notify"
  /\ UNCHANGED <<smVars, wdVars, tmVars, defVars, apiVars, component, lkVars, cm_stop, timer_frame, notify_log,
                 fsmVars, now, ehVars, cm_running_, condition_update_queue_,
                 condition_update_mutex_, next_seq, last_enq, ext_calls, trig_log>>

\* line 306: NotifyConditionChange runs TriggerEvent on the condition thread
\* under callback_mutex_, then updates.pop(); the pushes of TriggerEvent take
\* condition_update_mutex_ and event_mutex_
CL_Notify ==
  /\ cl_pc = "notify"
  /\ condition_update_mutex_ = "free"
  /\ event_mutex_ = "free"
  /\ LET r == TriggerEvent
     IN /\ condition_update_queue_' = r.updq
        /\ next_seq' = r.seq
        /\ last_enq' = r.le
        /\ event_queue_' = r.evq
        /\ next_id' = r.id
        /\ trig_log' = r.tl
  /\ LET update == NextUpdate(updates).update
     IN notify_log' = Append(notify_log, [seq |-> update.seq, name |-> update.name,
                                           value |-> update.value, duration |-> 0])
  /\ el_pc' = NotifyEventCv(el_pc)
  /\ updates' = NextUpdate(updates).rest
  /\ cl_pc' = "apply"
  /\ UNCHANGED <<smVars, wdVars, tmVars, defVars, apiVars, component, lkVars, timer_pc, cm_stop, timer_frame,
                 fsmVars, now, cm_running_, condition_values_,
                 condition_update_mutex_, timer_queue_, applied, ext_calls,
                 eh_running_, event_mutex_, pe, stop_pc, log>>

\* the batch is empty: ProcessConditionUpdates returns to ConditionLoop
CL_BatchDone ==
  /\ cl_pc = "apply"
  /\ updates = <<>>
  /\ cl_pc' = "while"
  /\ UNCHANGED <<smVars, wdVars, tmVars, defVars, apiVars, lifeVars, now, ehVars, cm_running_, condition_values_,
                 condition_update_queue_, condition_update_mutex_, timer_queue_, updates,
                 applied, next_seq, last_enq, ext_calls, trig_log>>

ConditionThread ==
  \/ CL_While \/ CL_Lock \/ CL_Pred \/ CL_Block \/ CL_Wake \/ CL_AfterWait
  \/ CL_Swap \/ CL_Apply \/ CL_Notify \/ CL_BatchDone

EventThread ==
  \/ EL_While \/ EL_Lock \/ EL_Pred \/ EL_Block \/ EL_Wake \/ EL_AfterWait
  \/ PE_GetState \/ PE_PreEvent \/ PE_VetoPost \/ PE_Find \/ PE_Rule
  \/ PE_OnTransition \/ PE_OnExitState \/ PE_SetState \/ PE_OnEnterState \/ PE_Post

Next ==
  \/ EH_Start
  \/ EH_StopEnter \/ EH_StopNotify \/ EH_StopJoin
  \/ \E name \in EventNames : HandleEvent(name)
  \/ EventThread
  \/ EL_Spurious

Spec == Init /\ [][Next]_vars


(***************************************************************************)
(* The condition path alone: external threads write condition values, the  *)
(* condition thread applies them and synthesizes events                    *)
(***************************************************************************)
InitCond ==
  /\ InitCommon
  /\ now = 0
  /\ condition_values_ = InitialValues([n \in ConditionNames |-> 0])

NextCond ==
  \/ CM_Start
  \/ \E name \in ConditionNames, value \in 0..MaxValue : SetConditionValue(name, value)
  \/ ConditionThread
  \/ CL_Spurious
  \/ Tick

SpecCond == InitCond /\ [][NextCond]_vars


(***************************************************************************)
(* Scheduling: a thread that can take a step eventually takes one.  The    *)
(* external callers of HandleEvent and spurious wakeups are not obliged    *)
(* to happen.                                                              *)
(***************************************************************************)
StopCaller == EH_StopEnter \/ EH_StopNotify \/ EH_StopJoin

SpecFair ==
  /\ Init
  /\ [][Next]_vars
  /\ WF_vars(EH_Start)
  /\ WF_vars(EventThread)
  /\ WF_vars(StopCaller)

(***************************************************************************)
(* Reading the history of the event thread                                 *)
(***************************************************************************)
LogIndex == 1..Len(log)

\* the events whose processing has begun
Dequeued == {log[i].id : i \in {k \in LogIndex : log[k].cb = "dequeue"}}

\* the events ProcessEvent has returned for
Finished == {id \in Dequeued : pe.event.id # id}

Entries(id, cb) == {i \in LogIndex : log[i].id = id /\ log[i].cb = cb}

Count(id, cb) == Cardinality(Entries(id, cb))

\* does some rule stored under (state, name) have conditions that hold
SatisfiedRules(state, name) ==
  LET rules == SelectRules(transitions_, state, name)
  IN {k \in 1..Len(rules) : CheckConditions(rules[k].conditions, rules[k].conditionsOperator)}

(***************************************************************************)
(* C1: each dequeued event commits at most one state change, also when     *)
(* several rules stored under the same (state, event name) key have        *)
(* conditions that hold.                                                   *)
(***************************************************************************)
C1_AtMostOneCommit == \A id \in Dequeued : Count(id, "commit") <= 1

(***************************************************************************)
(* C2: the post-event callback is invoked exactly once for every event     *)
(* whose processing has ended, whichever branch ProcessEvent took.         *)
(***************************************************************************)
C2_PostExactlyOnce ==
  /\ \A id \in Dequeued : Count(id, "post") <= 1
  /\ \A id \in Finished : Count(id, "post") = 1

(***************************************************************************)
(* C3: when no rule holds at the current state and an ancestor has a rule  *)
(* for the event name whose conditions hold, processing the event commits  *)
(* a transition.                                                           *)
(***************************************************************************)
\* the proper ancestors of a state that have a satisfied rule for the name
SatisfiedAncestors(state, name) ==
  LET chain == GetStateHierarchy(state)
  IN {k \in 2..Len(chain) : SatisfiedRules(chain[k], name) # {}}

C3_AncestorRuleTaken ==
  \A i \in LogIndex :
     ( /\ log[i].cb = "find"
       /\ log[i].id \in Finished
       /\ SatisfiedRules(log[i].cur, log[i].name) = {}
       /\ SatisfiedAncestors(log[i].cur, log[i].name) # {} )
     => Count(log[i].id, "commit") >= 1

(***************************************************************************)
(* C4: while the conditions of an edge-mode event definition keep holding  *)
(* from one evaluation by TriggerEvent to the next, the later evaluation   *)
(* synthesizes no event: one event per change from not holding to holding. *)
(***************************************************************************)
EdgeDefinitions ==
  {event_definitions_[k].name :
     k \in {j \in 1..Len(event_definitions_) : event_definitions_[j].trigger_mode = "edge"}}

\* j is the evaluation of the definition that follows evaluation i
NextEvaluation(i, j) ==
  /\ i < j
  /\ trig_log[i].def = trig_log[j].def
  /\ \A k \in (i + 1)..(j - 1) : trig_log[k].def # trig_log[i].def

C4_EdgeFiresOncePerRise ==
  \A i, j \in 1..Len(trig_log) :
     ( /\ NextEvaluation(i, j)
       /\ trig_log[i].def \in EdgeDefinitions
       /\ trig_log[i].holds
       /\ trig_log[j].holds )
     => trig_log[j].fired = ""

(***************************************************************************)
(* C5: a call of Stop on a running EventHandler eventually returns.        *)
(***************************************************************************)
C5_StopReturns == (stop_pc = "notify") ~> (stop_pc = "returned")

(***************************************************************************)
(* C6: events are processed in the order HandleEvent enqueued them and one *)
(* at a time: the k-th event dequeued is the k-th event enqueued, and once *)
(* an event has been dequeued no step of an earlier event follows.         *)
(***************************************************************************)
C6_FifoOneAtATime ==
  /\ \A i, j \in LogIndex : i < j => log[i].id <= log[j].id
  /\ \A id \in Dequeued : \A earlier \in 1..(id - 1) : earlier \in Dequeued
  /\ \A k \in 1..Len(event_queue_) :
       /\ \A i \in LogIndex : log[i].id < event_queue_[k].id
       /\ pe.event.id < event_queue_[k].id
       /\ k > 1 => event_queue_[k - 1].id < event_queue_[k].id

\* two events have been processed in turn, the first of them took a transition
C6_Witness ==
  /\ Count(1, "commit") >= 1
  /\ Count(2, "post") >= 1

(***************************************************************************)
(* C7: condition updates are applied in the order SetConditionValue        *)
(* enqueued them, and once the queue has drained every condition holds the *)
(* value of its last enqueued update.                                      *)
(***************************************************************************)
\* the part of the batch that has not been applied
PendingBatch == IF cl_pc = "notify" THEN NextUpdate(updates).rest ELSE updates

Seqs(q) == [i \in 1..Len(q) |-> q[i].seq]

Drained == condition_update_queue_ = <<>> /\ PendingBatch = <<>>

C7_UpdatesAppliedInOrder ==
  /\ Seqs(applied) \o Seqs(PendingBatch) \o Seqs(condition_update_queue_)
       = [i \in 1..(next_seq - 1) |-> i]
  /\ Drained => \A n \in DOMAIN last_enq :
                   /\ n \in DOMAIN condition_values_
                   /\ condition_values_[n].value = last_enq[n]

\* two updates of one condition with different values, made by external
\* threads, were applied one after the other and the queue has drained
C7_Witness ==
  /\ Drained
  /\ \E i, j \in 1..Len(applied) :
       /\ j = i + 1
       /\ applied[i].name = applied[j].name
       /\ applied[i].value # applied[j].value
       /\ applied[j].seq <= MaxUpdates

(***************************************************************************)
(* C8: for the winning rule the event thread invokes, in this order, the   *)
(* transition callback and the exit callback (GetCurrentState still the    *)
(* source state), SetState(target), and the enter callback                 *)
(* (GetCurrentState the target); the post-event callback comes later.      *)
(***************************************************************************)
\* the evaluation of the first rule of the event whose conditions hold
Winning(i) ==
  /\ log[i].cb = "check"
  /\ log[i].ok
  /\ \A k \in 1..(i - 1) : ~(log[k].id = log[i].id /\ log[k].cb = "check" /\ log[k].ok)

\* what GetCurrentState returned when processing of the event began
SourceState(id) == log[CHOOSE k \in Entries(id, "dequeue") : TRUE].cur

C8_CallbackOrder ==
  \A i \in LogIndex :
     Winning(i) =>
       LET id == log[i].id
           at(k, cb) == (i + k <= Len(log)) => (log[i + k].cb = cb /\ log[i + k].id = id)
           sees(k, state) == (i + k <= Len(log)) => log[i + k].cur = state
       IN /\ at(1, "transition") /\ sees(1, SourceState(id))
          /\ at(2, "exit") /\ sees(2, SourceState(id))
          /\ at(3, "commit")
          /\ at(4, "enter") /\ sees(4, log[i].to)
          /\ \A p \in Entries(id, "post") : p > i + 4
          /\ id \in Finished => Count(id, "post") = 1

\* an event took a transition that leaves and enters states, and was reported
C8_Witness ==
  \E i \in LogIndex :
     /\ Winning(i)
     /\ i + 4 <= Len(log)
     /\ log[i + 2].path # <<>>
     /\ log[i + 4].path # <<>>
     /\ \E p \in Entries(log[i].id, "post") : log[p].ok

(***************************************************************************)
(* C9: when the pre-event callback returns false the post-event callback   *)
(* is invoked with handled = false, no rule is looked up or evaluated, no  *)
(* exit, transition or enter callback fires and the current state is       *)
(* unchanged.                                                              *)
(***************************************************************************)
C9_VetoSkipsEverything ==
  \A i \in LogIndex :
     (log[i].cb = "pre" /\ ~log[i].ok) =>
       LET id == log[i].id
       IN /\ \A cb \in {"find", "check", "transition", "exit", "commit", "enter"} :
               Count(id, cb) = 0
          /\ i + 1 <= Len(log) =>
               /\ log[i + 1].cb = "post"
               /\ log[i + 1].id = id
               /\ ~log[i + 1].ok
               /\ log[i + 1].cur = SourceState(id)
          /\ id \in Finished => Count(id, "post") = 1
          /\ pe.event.id = id => current_state_ = SourceState(id)

\* an event that has a rule at the current state was vetoed and reported
C9_Witness ==
  \E i \in LogIndex :
     /\ log[i].cb = "pre"
     /\ ~log[i].ok
     /\ SatisfiedRules(log[i].cur, log[i].name) # {}
     /\ log[i].id \in Finished

(***************************************************************************)
(* C10: an event that no rule matches, or whose matching rules all have    *)
(* unsatisfied conditions, leaves the current state unchanged, fires no    *)
(* exit, transition or enter callback and is reported with handled = false.*)
(***************************************************************************)
C10_UnmatchedReportedUnhandled ==
  \A i \in LogIndex :
     ( /\ log[i].cb = "find"
       /\ log[i].id \in Finished
       /\ SatisfiedRules(log[i].cur, log[i].name) = {}
       /\ SatisfiedAncestors(log[i].cur, log[i].name) = {} )
     => LET id == log[i].id
        IN /\ \A cb \in {"transition", "exit", "commit", "enter"} : Count(id, cb) = 0
           /\ \E p \in Entries(id, "post") : ~log[p].ok /\ log[p].cur = SourceState(id)


(***************************************************************************)
(* StateManager hierarchy queries on arbitrary hierarchies.                *)
(* The inputs are the tables AddStateInfo can leave behind on which the    *)
(* loop of GetStateHierarchy(state) returns: every registered state has    *)
(* at most one parent, the parent is registered or (after a rejected call) *)
(* not, and following the parents ends.                                     *)
(***************************************************************************)
RECURSIVE WalkEnds(_, _, _)
\* following the parents from state leaves the table within n steps
WalkEnds(table, state, n) ==
  IF state = NoState \/ state \notin DOMAIN table THEN TRUE
  ELSE IF n = 0 THEN FALSE
  ELSE WalkEnds(table, table[state].parent, n - 1)

StateInfos == [parent : StateNames \cup {NoState}, timeout : {0}]

Hierarchies ==
  {table \in UNION {[registered -> StateInfos] : registered \in SUBSET StateNames} :
     \A state \in DOMAIN table : WalkEnds(table, state, Cardinality(StateNames))}

InitHier ==
  /\ component = "components"
  /\ states_ \in Hierarchies
  /\ current_state_ = NoState
  /\ transitions_ = <<>>
  /\ tm_running_ = FALSE
  /\ event_definitions_ = <<>>
  /\ all_conditions_ = <<>>
  /\ condition_values_ = [n \in {} |-> 0]
  /\ now = 0
  /\ InitIdle

\* a caller runs GetStateHierarchy(from, to, exit_states, enter_states)
CallGetStateHierarchy ==
  \E from \in DOMAIN states_, to \in DOMAIN states_ :
     LET path == GetExitEnterPath(from, to)
     IN /\ hier_call' = [from |-> from, to |-> to,
                         exit_states |-> path.exit_states, enter_states |-> path.enter_states]
        /\ UNCHANGED <<smVars, wdVars, tmVars, defVars, lifeVars, cmVars, now, ehVars, check_call, value_call, tm_hist,
                      sm_running_, tt_pc, gh, last_call, api_calls>>

NextHier == CallGetStateHierarchy

SpecHier == InitHier /\ [][NextHier]_vars

\* the parent a name has in the table (none for an unregistered name)
ParentOf(state) == IF state \in DOMAIN states_ THEN states_[state].parent ELSE NoState

RECURSIVE Above(_, _)
\* the names reached from the states of a set by following parents n times or fewer
Above(set, n) ==
  IF n = 0 THEN set
  ELSE Above(set \cup ({ParentOf(state) : state \in set} \ {NoState}), n - 1)

\* the state and all its ancestors, as a set
ChainOf(state) == Above({state}, Cardinality(StateNames))

Elements(list) == {list[i] : i \in 1..Len(list)}

NoRepeat(list) == \A i, j \in 1..Len(list) : i # j => list[i] # list[j]

\* C11: a call GetStateHierarchy(A, B, exit, enter) on registered states
\* returns as exit list exactly the states of A's chain that are not in B's
\* chain and as enter list exactly the states of B's chain that are not in
\* A's chain, each once; the lists are disjoint, and both are empty for A = B.
C11_PathsSplitAtCommonAncestor ==
  hier_call # NoCall =>
     /\ Elements(hier_call.exit_states) = ChainOf(hier_call.from) \ ChainOf(hier_call.to)
     /\ Elements(hier_call.enter_states) = ChainOf(hier_call.to) \ ChainOf(hier_call.from)
     /\ NoRepeat(hier_call.exit_states)
     /\ NoRepeat(hier_call.enter_states)
     /\ Elements(hier_call.exit_states) \cap Elements(hier_call.enter_states) = {}
     /\ hier_call.from = hier_call.to =>
          hier_call.exit_states = <<>> /\ hier_call.enter_states = <<>>

\* a call between two different branches below a shared ancestor
C11_Witness ==
  /\ hier_call # NoCall
  /\ hier_call.exit_states # <<>>
  /\ hier_call.enter_states # <<>>
  /\ ChainOf(hier_call.from) \cap ChainOf(hier_call.to) # {}

SetupStates == {"ROOT", "A", "A1"}

SetupStateInfos == [name : SetupStates, parent : SetupStates \cup {NoState}]

\* rules the configuring thread passes to AddTransition (rule.events is a list)
SetupRules ==
  { [from |-> "A", events |-> <<"E1", "E2">>, to |-> "A1", conditions |-> <<>>,
     conditionsOperator |-> "AND"],
    [from |-> "A", events |-> <<"E1">>, to |-> "ROOT", conditions |-> <<CondTemp>>,
     conditionsOperator |-> "AND"] }

InitSetup ==
  /\ component = "components"
  /\ states_ = [n \in {} |-> 0]
  /\ current_state_ = NoState
  /\ transitions_ = <<>>
  /\ tm_running_ = FALSE
  /\ event_definitions_ = <<>>
  /\ all_conditions_ = <<>>
  /\ condition_values_ = [n \in {} |-> 0]
  /\ now = 0
  /\ InitIdle

\* std::map / std::unordered_map operator[] assignment
Put(map, key, value) == [k \in DOMAIN map \cup {key} |-> IF k = key THEN value ELSE map[k]]

\* the record of a call and its return value
ApiCall(op, ret, running) == [op |-> op, ret |-> ret, running |-> running]

BoolRet(b) == IF b THEN "true" ELSE "false"

SM_Start ==
  /\ ~sm_running_
  /\ tt_pc = "none"
  /\ sm_running_' = TRUE
  /\ tt_pc' = "while"
  /\ UNCHANGED <<smVars, wdVars, tmVars, defVars, lifeVars, cmVars, now, ehVars, hier_call, check_call, value_call, tm_hist, gh, last_call, api_calls>>

\* AddStateInfo: the state is stored before its parent is looked up
AddStateInfo(state_info) ==
  /\ api_calls < MaxCalls
  /\ gh.pc # "loop"
  /\ api_calls' = api_calls + 1
  /\ IF sm_running_ \/ state_info.name \in DOMAIN states_
     THEN /\ last_call' = ApiCall("AddStateInfo", "false", sm_running_)
          /\ UNCHANGED states_
     ELSE /\ states_' = Put(states_, state_info.name, [parent |-> state_info.parent, timeout |-> 0])
          /\ last_call' = ApiCall("AddStateInfo",
                                  BoolRet(state_info.parent = NoState
                                          \/ state_info.parent \in DOMAIN states_'),
                                  sm_running_)
  /\ UNCHANGED <<current_state_, wdVars, tmVars, defVars, lifeVars, cmVars, now, ehVars, hier_call, check_call, value_call, tm_hist, sm_running_,
                 tt_pc, gh>>

\* GetStateHierarchy(state): entry
GH_Call ==
  /\ api_calls < MaxCalls
  /\ gh.pc # "loop"
  /\ \E state \in DOMAIN states_ :
        gh' = [pc |-> "loop", state |-> state, current |-> state, hierarchy |-> <<>>]
  /\ api_calls' = api_calls + 1
  /\ last_call' = ApiCall("GetStateHierarchy", "void", sm_running_)
  /\ UNCHANGED <<smVars, wdVars, tmVars, defVars, lifeVars, cmVars, now, ehVars, hier_call, check_call, value_call, tm_hist, sm_running_, tt_pc>>

\* GetStateHierarchy(state): the loop test and one iteration of the loop
GH_Step ==
  /\ gh.pc = "loop"
  /\ Len(gh.hierarchy) < MaxChain
  /\ IF gh.current = NoState
     THEN gh' = [gh EXCEPT !.pc = "done"]
     ELSE IF gh.current \notin DOMAIN states_
          THEN gh' = [gh EXCEPT !.hierarchy = Append(@, gh.current), !.pc = "done"]
          ELSE gh' = [gh EXCEPT !.hierarchy = Append(@, gh.current),
                                !.current = states_[gh.current].parent]
  /\ UNCHANGED <<smVars, wdVars, tmVars, defVars, lifeVars, cmVars, now, ehVars, hier_call, check_call, value_call, tm_hist, sm_running_, tt_pc,
                 last_call, api_calls>>

TM_Start ==
  /\ ~tm_running_
  /\ tm_running_' = TRUE
  /\ UNCHANGED <<smVars, wdVars, transitions_, defVars, apiVars, lifeVars, cmVars, now, ehVars>>

TM_Stop ==
  /\ tm_running_
  /\ tm_running_' = FALSE
  /\ UNCHANGED <<smVars, wdVars, transitions_, defVars, apiVars, lifeVars, cmVars, now, ehVars>>

RECURSIVE InsertEvents(_, _, _, _)
\* variant: only the first event of the rule gets an entry
InsertEventsFirstOnly(table, rule, i, front) ==
  LET entry == [from |-> rule.from, event |-> rule.events[1], events |-> rule.events,
                to |-> rule.to, conditions |-> rule.conditions,
                conditionsOperator |-> rule.conditionsOperator]
  IN IF front THEN <<entry>> \o table ELSE Append(table, entry)

\* the loop of AddTransition: one entry per event of the rule, holding the
\* rule under the key {rule.from, event}; an entry goes behind or in front of
\* the entries already stored
InsertEvents(table, rule, i, front) ==
  IF i > Len(rule.events) THEN table
  ELSE LET entry == [from |-> rule.from, event |-> rule.events[i], events |-> rule.events,
                     to |-> rule.to, conditions |-> rule.conditions,
                     conditionsOperator |-> rule.conditionsOperator]
       IN InsertEvents(IF front THEN <<entry>> \o table ELSE Append(table, entry),
                       rule, i + 1, front)

AddTransition(rule) ==
  /\ api_calls < MaxCalls
  /\ api_calls' = api_calls + 1
  /\ IF tm_running_
     THEN /\ last_call' = ApiCall("AddTransition", "false", TRUE)
          /\ UNCHANGED <<transitions_, tm_hist>>
     ELSE /\ \E front \in BOOLEAN : transitions_' = InsertEvents(transitions_, rule, 1, front)
          /\ last_call' = ApiCall("AddTransition", "true", FALSE)
          /\ tm_hist' = [tm_hist EXCEPT !.added = @ \cup {rule}]
  /\ UNCHANGED <<smVars, wdVars, tm_running_, defVars, lifeVars, cmVars, now, ehVars, hier_call, check_call,
                 value_call, sm_running_, tt_pc, gh>>

\* TransitionManager::Clear: returns early when the manager is NOT running
Clear ==
  /\ api_calls < MaxCalls
  /\ api_calls' = api_calls + 1
  /\ last_call' = ApiCall("Clear", "void", tm_running_)
  /\ transitions_' = IF ~tm_running_ THEN transitions_ ELSE <<>>
  /\ tm_hist' = [tm_hist EXCEPT !.cleared = @ \/ tm_running_]
  /\ UNCHANGED <<smVars, wdVars, tm_running_, defVars, lifeVars, cmVars, now, ehVars, hier_call, check_call,
                 value_call, sm_running_, tt_pc, gh>>

\* variant: the running check of AddCondition is missing
AddConditionUnguarded(condition) ==
  /\ api_calls < MaxCalls
  /\ api_calls' = api_calls + 1
  /\ last_call' = ApiCall("AddCondition", "void", cm_running_)
  /\ all_conditions_' = Append(all_conditions_, condition)
  /\ condition_values_' =
        IF condition.name \in DOMAIN condition_values_ THEN condition_values_
        ELSE Put(condition_values_, condition.name,
                 [value |-> 0, lastUpdateTime |-> now, lastChangedTime |-> now])
  /\ UNCHANGED <<smVars, wdVars, tmVars, event_definitions_, lifeVars, now, ehVars, hier_call, check_call, value_call, tm_hist,
                 sm_running_, tt_pc,
                 gh, cm_running_, condition_update_queue_, condition_update_mutex_, timer_queue_,
                 updates, cl_pc, applied, next_seq, last_enq, ext_calls, trig_log>>

AddCondition(condition) ==
  /\ api_calls < MaxCalls
  /\ api_calls' = api_calls + 1
  /\ last_call' = ApiCall("AddCondition", "void", cm_running_)
  /\ IF cm_running_
     THEN UNCHANGED <<all_conditions_, condition_values_>>
     ELSE /\ all_conditions_' = Append(all_conditions_, condition)
          /\ condition_values_' =
                IF condition.name \in DOMAIN condition_values_ THEN condition_values_
                ELSE Put(condition_values_, condition.name,
                         [value |-> 0, lastUpdateTime |-> now, lastChangedTime |-> now])
  /\ UNCHANGED <<smVars, wdVars, tmVars, event_definitions_, lifeVars, now, ehVars, hier_call, check_call, value_call, tm_hist,
                 sm_running_, tt_pc,
                 gh, cm_running_, condition_update_queue_, condition_update_mutex_, timer_queue_,
                 updates, cl_pc, applied, next_seq, last_enq, ext_calls, trig_log>>

NextSetup ==
  \/ SM_Start
  \/ \E state_info \in SetupStateInfos : AddStateInfo(state_info)
  \/ GH_Call
  \/ GH_Step
  \/ TM_Start
  \/ TM_Stop
  \/ \E rule \in SetupRules : AddTransition(rule)
  \/ Clear
  \/ CM_Start
  \/ \E condition \in {CondTemp, CondPower} : AddCondition(condition)

SpecSetup == InitSetup /\ [][NextSetup]_vars

\* C13: every registered state that names a parent has a registered parent
\* (a rejected AddStateInfo call leaves no state behind).
C13_ParentsRegistered ==
  \A state \in DOMAIN states_ :
     states_[state].parent # NoState => states_[state].parent \in DOMAIN states_

\* C14: the loop of GetStateHierarchy(state) never comes back to a state it
\* has already pushed, and the list it returns starts at the state, continues
\* with the parent of each entry and ends at a registered state without parent.
C14_HierarchyEndsAtRoot ==
  /\ gh.pc = "loop" => NoRepeat(gh.hierarchy) /\ gh.current \notin Elements(gh.hierarchy)
  /\ gh.pc = "done" =>
        /\ gh.hierarchy # <<>>
        /\ gh.hierarchy[1] = gh.state
        /\ \A i \in 1..(Len(gh.hierarchy) - 1) : gh.hierarchy[i + 1] = ParentOf(gh.hierarchy[i])
        /\ gh.hierarchy[Len(gh.hierarchy)] \in DOMAIN states_
        /\ ParentOf(gh.hierarchy[Len(gh.hierarchy)]) = NoState

\* the step is a call of the named configuration method
Called(op) == api_calls' = api_calls + 1 /\ last_call'.op = op

\* C17: a call of AddStateInfo, AddTransition or AddCondition made while the
\* component runs is rejected and leaves states_, transitions_,
\* all_conditions_ and condition_values_ as they were.
C17_AddRejectedWhileRunning ==
  [][/\ (Called("AddStateInfo") /\ sm_running_) =>
          (last_call'.ret = "false" /\ states_' = states_)
     /\ (Called("AddTransition") /\ tm_running_) =>
          (last_call'.ret = "false" /\ transitions_' = transitions_)
     /\ (Called("AddCondition") /\ cm_running_) =>
          (all_conditions_' = all_conditions_ /\ condition_values_' = condition_values_)]_vars

\* AddCondition was called while the ConditionManager runs and descriptors are stored
C17_Witness ==
  /\ last_call.op = "AddCondition"
  /\ last_call.running
  /\ cm_running_
  /\ all_conditions_ # <<>>

\* C18: no step taken while the TransitionManager runs changes transitions_.
C18_RulesFixedWhileRunning ==
  [][tm_running_ => transitions_' = transitions_]_vars


(***************************************************************************)
(* Life cycle: Start and Stop of the ConditionManager and Init, Start,     *)
(* Stop and the callback setters of the FiniteStateMachine of              *)
(* state_machine.cpp.  One thread owns one of the two objects and makes    *)
(* its calls one after the other.  No condition value is written and no    *)
(* event is sent, so the queues stay empty and the worker threads only     *)
(* wait and leave.                                                          *)
(***************************************************************************)
InitLife ==
  /\ component \in {"ConditionManager", "FiniteStateMachine"}
  /\ states_ = [n \in {} |-> 0]
  /\ current_state_ = NoState
  /\ transitions_ = <<>>
  /\ tm_running_ = FALSE
  /\ event_definitions_ = <<>>
  /\ all_conditions_ = <<>>
  /\ condition_values_ = [n \in {} |-> 0]
  /\ now = 0
  /\ InitIdle

\* variant: join is called without asking joinable()
JoinableAlways(pc) == TRUE

\* std::thread::joinable: false for a default-constructed or a joined thread
Joinable(pc) == pc # "none"

\* ---- ConditionManager::TimerLoop
\* lines 195-204: the loop condition, the lock and the test of the queue
TL_While ==
  /\ timer_pc = "while"
  /\ timer_pc' = IF ~cm_running_ THEN "exited"
                ELSE IF timer_queue_ = <<>> THEN "pred" ELSE "top"
  /\ UNCHANGED <<smVars, wdVars, tmVars, defVars, apiVars, component, lkVars, timer_frame, notify_log, cm_stop, fsmVars, cmVars, now,
                 ehVars>>

\* line 205: the predicate of timer_cv_.wait is evaluated under timer_mutex_
TL_Pred ==
  /\ timer_pc = "pred"
  /\ timer_pc' = IF ~cm_running_ \/ timer_queue_ # <<>> THEN "after_wait" ELSE "block"
  /\ UNCHANGED <<smVars, wdVars, tmVars, defVars, apiVars, component, lkVars, timer_frame, notify_log, cm_stop, fsmVars, cmVars, now,
                 ehVars>>

TL_Block ==
  /\ timer_pc = "block"
  /\ timer_pc' = "parked"
  /\ UNCHANGED <<smVars, wdVars, tmVars, defVars, apiVars, component, lkVars, timer_frame, notify_log, cm_stop, fsmVars, cmVars, now,
                 ehVars>>

TL_Spurious ==
  /\ timer_pc = "parked"
  /\ timer_pc' = "woken"
  /\ UNCHANGED <<smVars, wdVars, tmVars, defVars, apiVars, component, lkVars, timer_frame, notify_log, cm_stop, fsmVars, cmVars, now,
                 ehVars>>

TL_Wake ==
  /\ timer_pc = "woken"
  /\ timer_pc' = "pred"
  /\ UNCHANGED <<smVars, wdVars, tmVars, defVars, apiVars, component, lkVars, timer_frame, notify_log, cm_stop, fsmVars, cmVars, now,
                 ehVars>>

\* lines 206-211: break when stopped, continue when the queue is still empty
TL_AfterWait ==
  /\ timer_pc = "after_wait"
  /\ timer_pc' = IF ~cm_running_ THEN "exited"
                ELSE IF timer_queue_ = <<>> THEN "while" ELSE "top"
  /\ UNCHANGED <<smVars, wdVars, tmVars, defVars, apiVars, component, lkVars, timer_frame, notify_log, cm_stop, fsmVars, cmVars, now,
                 ehVars>>

TimerThread == TL_While \/ TL_Pred \/ TL_Block \/ TL_Wake \/ TL_AfterWait

\* ---- ConditionManager::Stop
\* lines 58-61
CMS_Enter ==
  /\ component = "ConditionManager"
  /\ cm_stop.pc = "idle"
  /\ cm_stop.n < MaxStops
  /\ IF ~cm_running_
     THEN /\ cm_stop' = [cm_stop EXCEPT !.n = @ + 1, !.entered_running = FALSE]
          /\ UNCHANGED cm_running_
     ELSE /\ cm_running_' = FALSE
          /\ cm_stop' = [cm_stop EXCEPT !.pc = "notify_condition", !.n = @ + 1,
                                        !.entered_running = TRUE]
  /\ UNCHANGED <<smVars, wdVars, tmVars, defVars, apiVars, component, lkVars, timer_frame, notify_log, timer_pc, fsmVars, now, ehVars,
                 condition_values_, condition_update_queue_, condition_update_mutex_,
                 timer_queue_, updates, cl_pc, applied, next_seq, last_enq, ext_calls, trig_log>>

\* line 62: notify_all without holding condition_update_mutex_
CMS_NotifyCondition ==
  /\ cm_stop.pc = "notify_condition"
  /\ cl_pc' = NotifyConditionCv(cl_pc)
  /\ cm_stop' = [cm_stop EXCEPT !.pc = "join_condition"]
  /\ UNCHANGED <<smVars, wdVars, tmVars, defVars, apiVars, component, lkVars, timer_frame, notify_log, timer_pc, fsmVars, now, ehVars,
                 cm_running_, condition_values_, condition_update_queue_,
                 condition_update_mutex_, timer_queue_, updates, applied, next_seq, last_enq,
                 ext_calls, trig_log>>

\* lines 63-65: join waits for the thread to leave ConditionLoop; join on a
\* thread that is not joinable throws std::system_error
CMS_JoinCondition ==
  /\ cm_stop.pc = "join_condition"
  /\ IF ~Joinable(cl_pc)
     THEN /\ cm_stop' = [cm_stop EXCEPT !.pc = "notify_timer"]
          /\ UNCHANGED cl_pc
     ELSE IF cl_pc = "none"
          THEN /\ cm_stop' = [cm_stop EXCEPT !.pc = "threw"]
               /\ UNCHANGED cl_pc
          ELSE /\ cl_pc = "exited"
               /\ cl_pc' = "none"
               /\ cm_stop' = [cm_stop EXCEPT !.pc = "notify_timer"]
  /\ UNCHANGED <<smVars, wdVars, tmVars, defVars, apiVars, component, lkVars, timer_frame, notify_log, timer_pc, fsmVars, now, ehVars,
                 cm_running_, condition_values_, condition_update_queue_,
                 condition_update_mutex_, timer_queue_, updates, applied, next_seq, last_enq,
                 ext_calls, trig_log>>

\* line 66: notify_all without holding timer_mutex_
CMS_NotifyTimer ==
  /\ cm_stop.pc = "notify_timer"
  /\ timer_pc' = NotifyTimerCv(timer_pc)
  /\ cm_stop' = [cm_stop EXCEPT !.pc = "join_timer"]
  /\ UNCHANGED <<smVars, wdVars, tmVars, defVars, apiVars, component, lkVars, timer_frame, notify_log, fsmVars, cmVars, now, ehVars>>

\* lines 67-69
CMS_JoinTimer ==
  /\ cm_stop.pc = "join_timer"
  /\ IF ~Joinable(timer_pc)
     THEN /\ cm_stop' = [cm_stop EXCEPT !.pc = "idle"]
          /\ UNCHANGED timer_pc
     ELSE IF timer_pc = "none"
          THEN /\ cm_stop' = [cm_stop EXCEPT !.pc = "threw"]
               /\ UNCHANGED timer_pc
          ELSE /\ timer_pc = "exited"
               /\ timer_pc' = "none"
               /\ cm_stop' = [cm_stop EXCEPT !.pc = "idle"]
  /\ UNCHANGED <<smVars, wdVars, tmVars, defVars, apiVars, component, lkVars, timer_frame, notify_log, fsmVars, cmVars, now, ehVars>>

\* ConditionManager::Start called by the owner of the object
CM_StartCall ==
  /\ component = "ConditionManager"
  /\ cm_stop.pc = "idle"
  /\ CM_Start

\* ---- FiniteStateMachine (state_machine.cpp)
\* callbacks the caller passes to the setters
Callbacks == {"f", "g"}

\* handlers the caller passes to SetStateEventHandler
Handlers == {NullHandler, [null |-> FALSE, callbacks |-> [slot \in CallbackSlots |-> "g"]]}

\* the caller of the FiniteStateMachine is not inside Stop
FsmCallerFree ==
  /\ component = "FiniteStateMachine"
  /\ fsm_stop.pc = "idle"

\* Init: LoadFromJSON succeeds or throws
FSM_Init ==
  /\ FsmCallerFree
  /\ api_calls < MaxCalls
  /\ api_calls' = api_calls + 1
  /\ \E loaded \in BOOLEAN :
        /\ initialized_' = (initialized_ \/ loaded)
        /\ last_call' = ApiCall("Init", BoolRet(loaded), running_)
  /\ UNCHANGED <<smVars, wdVars, tmVars, defVars, hier_call, check_call, value_call, tm_hist, sm_running_, tt_pc, gh, component, lkVars, timer_frame, notify_log,
                 cmLifeVars, running_, fsm_threads, fsm_stop, state_event_handler_, cmVars, now,
                 ehVars>>

\* variant: Start does not look at initialized_
FSM_StartUnchecked ==
  /\ FsmCallerFree
  /\ api_calls < MaxCalls
  /\ api_calls' = api_calls + 1
  /\ IF running_
     THEN /\ last_call' = ApiCall("Start", "false", running_)
          /\ UNCHANGED <<running_, fsm_threads>>
     ELSE /\ running_' = TRUE
          /\ fsm_threads' = [t \in FsmThreads |-> "while"]
          /\ last_call' = ApiCall("Start", "true", running_)
  /\ UNCHANGED <<smVars, wdVars, tmVars, defVars, hier_call, check_call, value_call, tm_hist, sm_running_, tt_pc, gh, component, lkVars, timer_frame, notify_log,
                 cmLifeVars, initialized_, fsm_stop, state_event_handler_, cmVars, now, ehVars>>

FSM_Start ==
  /\ FsmCallerFree
  /\ api_calls < MaxCalls
  /\ api_calls' = api_calls + 1
  /\ IF ~initialized_ \/ running_
     THEN /\ last_call' = ApiCall("Start", "false", running_)
          /\ UNCHANGED <<running_, fsm_threads>>
     ELSE /\ running_' = TRUE
          /\ fsm_threads' = [t \in FsmThreads |-> "while"]
          /\ last_call' = ApiCall("Start", "true", running_)
  /\ UNCHANGED <<smVars, wdVars, tmVars, defVars, hier_call, check_call, value_call, tm_hist, sm_running_, tt_pc, gh, component, lkVars, timer_frame, notify_log,
                 cmLifeVars, initialized_, fsm_stop, state_event_handler_, cmVars, now, ehVars>>

\* SetTransitionCallback, SetPreEventCallback, SetEnterStateCallback,
\* SetExitStateCallback, SetPostEventCallback: the handler is created when
\* there is none, then the callback is stored; running_ is not read
SetCallback(slot, callback) ==
  /\ FsmCallerFree
  /\ api_calls < MaxCalls
  /\ api_calls' = api_calls + 1
  /\ last_call' = ApiCall("SetCallback", "void", running_)
  /\ state_event_handler_' =
        [null |-> FALSE, callbacks |-> [state_event_handler_.callbacks EXCEPT ![slot] = callback]]
  /\ UNCHANGED <<smVars, wdVars, tmVars, defVars, hier_call, check_call, value_call, tm_hist, sm_running_, tt_pc, gh, component, lkVars, timer_frame, notify_log,
                 cmLifeVars, initialized_, running_, fsm_threads, fsm_stop, cmVars, now, ehVars>>

SetStateEventHandler(handler) ==
  /\ FsmCallerFree
  /\ api_calls < MaxCalls
  /\ api_calls' = api_calls + 1
  /\ last_call' = ApiCall("SetStateEventHandler", "void", running_)
  /\ state_event_handler_' = handler
  /\ UNCHANGED <<smVars, wdVars, tmVars, defVars, hier_call, check_call, value_call, tm_hist, sm_running_, tt_pc, gh, component, lkVars, timer_frame, notify_log,
                 cmLifeVars, initialized_, running_, fsm_threads, fsm_stop, cmVars, now, ehVars>>

\* the position a thread moves to when its wait ends with running_ false:
\* TimerLoop continues to the loop test, the other loops break
Stopped(t) == IF t = "timer_thread_" THEN "while" ELSE "exited"

\* the loop test while (running_)
FT_While(t) ==
  /\ fsm_threads[t] = "while"
  /\ fsm_threads' = [fsm_threads EXCEPT ![t] = IF running_ THEN "wait" ELSE "exited"]
  /\ UNCHANGED <<smVars, wdVars, tmVars, defVars, apiVars, component, lkVars, timer_frame, notify_log, cmLifeVars, initialized_, running_,
                 fsm_stop, state_event_handler_, cmVars, now, ehVars>>

\* the thread locks its mutex and waits: EventTriggerLoop waits without a
\* predicate, the other loops wait for !running_ or a non-empty queue
FT_Wait(t) ==
  /\ fsm_threads[t] = "wait"
  /\ fsm_threads' =
        [fsm_threads EXCEPT ![t] =
           IF t = "event_trigger_thread_" THEN "parked"
           ELSE IF ~running_ THEN Stopped(t) ELSE "parked"]
  /\ UNCHANGED <<smVars, wdVars, tmVars, defVars, apiVars, component, lkVars, timer_frame, notify_log, cmLifeVars, initialized_, running_,
                 fsm_stop, state_event_handler_, cmVars, now, ehVars>>

FT_Spurious(t) ==
  /\ fsm_threads[t] = "parked"
  /\ fsm_threads' = [fsm_threads EXCEPT ![t] = "woken"]
  /\ UNCHANGED <<smVars, wdVars, tmVars, defVars, apiVars, component, lkVars, timer_frame, notify_log, cmLifeVars, initialized_, running_,
                 fsm_stop, state_event_handler_, cmVars, now, ehVars>>

\* the thread has the mutex again: EventTriggerLoop tests running_ and runs
\* TriggerEvent, the other loops evaluate the predicate again
FT_Woken(t) ==
  /\ fsm_threads[t] = "woken"
  /\ fsm_threads' =
        [fsm_threads EXCEPT ![t] =
           IF t = "event_trigger_thread_" THEN (IF ~running_ THEN "exited" ELSE "while")
           ELSE IF ~running_ THEN Stopped(t) ELSE "parked"]
  /\ UNCHANGED <<smVars, wdVars, tmVars, defVars, apiVars, component, lkVars, timer_frame, notify_log, cmLifeVars, initialized_, running_,
                 fsm_stop, state_event_handler_, cmVars, now, ehVars>>

\* the order in which Stop notifies the condition variables and joins the threads
StopNotifyOrder ==
  <<"event_thread_", "condition_thread_", "timer_thread_", "event_trigger_thread_">>

StopJoinOrder ==
  <<"timer_thread_", "condition_thread_", "event_thread_", "event_trigger_thread_">>

\* notify_one with the thread of the condition variable as only waiter
NotifyThread(pc) == IF pc = "parked" THEN "woken" ELSE pc

\* Stop, line 72: no test of running_
FS_Enter ==
  /\ FsmCallerFree
  /\ fsm_stop.n < MaxStops
  /\ running_' = FALSE
  /\ fsm_stop' = [pc |-> "notify", i |-> 1, n |-> fsm_stop.n + 1, entered_running |-> running_]
  /\ UNCHANGED <<smVars, wdVars, tmVars, defVars, apiVars, component, lkVars, timer_frame, notify_log, cmLifeVars, initialized_,
                 fsm_threads, state_event_handler_, cmVars, now, ehVars>>

\* Stop, lines 74-89: one notify_one under the mutex of the condition variable
FS_Notify ==
  /\ fsm_stop.pc = "notify"
  /\ LET t == StopNotifyOrder[fsm_stop.i]
     IN fsm_threads' = [fsm_threads EXCEPT ![t] = NotifyThread(@)]
  /\ fsm_stop' = IF fsm_stop.i < Len(StopNotifyOrder)
                 THEN [fsm_stop EXCEPT !.i = @ + 1]
                 ELSE [fsm_stop EXCEPT !.pc = "join", !.i = 1]
  /\ UNCHANGED <<smVars, wdVars, tmVars, defVars, apiVars, component, lkVars, timer_frame, notify_log, cmLifeVars, initialized_, running_,
                 state_event_handler_, cmVars, now, ehVars>>

\* Stop, lines 92-103: if (joinable()) join()
FS_Join ==
  /\ fsm_stop.pc = "join"
  /\ LET t == StopJoinOrder[fsm_stop.i]
         next == IF fsm_stop.i < Len(StopJoinOrder)
                 THEN [fsm_stop EXCEPT !.i = @ + 1]
                 ELSE [fsm_stop EXCEPT !.pc = "idle", !.i = 0]
     IN IF ~Joinable(fsm_threads[t])
        THEN /\ fsm_stop' = next
             /\ UNCHANGED fsm_threads
        ELSE IF fsm_threads[t] = "none"
             THEN /\ fsm_stop' = [fsm_stop EXCEPT !.pc = "threw"]
                  /\ UNCHANGED fsm_threads
             ELSE /\ fsm_threads[t] = "exited"
                  /\ fsm_threads' = [fsm_threads EXCEPT ![t] = "none"]
                  /\ fsm_stop' = next
  /\ UNCHANGED <<smVars, wdVars, tmVars, defVars, apiVars, component, lkVars, timer_frame, notify_log, cmLifeVars, initialized_, running_,
                 state_event_handler_, cmVars, now, ehVars>>

NextLife ==
  \/ CM_StartCall
  \/ CL_While \/ CL_Lock \/ CL_Pred \/ CL_Block \/ CL_Wake \/ CL_AfterWait \/ CL_Spurious
  \/ TimerThread \/ TL_Spurious
  \/ CMS_Enter \/ CMS_NotifyCondition \/ CMS_JoinCondition \/ CMS_NotifyTimer \/ CMS_JoinTimer
  \/ FSM_Init
  \/ FSM_Start
  \/ \E slot \in CallbackSlots, callback \in Callbacks : SetCallback(slot, callback)
  \/ \E handler \in Handlers : SetStateEventHandler(handler)
  \/ \E t \in FsmThreads : FT_While(t) \/ FT_Wait(t) \/ FT_Spurious(t) \/ FT_Woken(t)
  \/ FS_Enter \/ FS_Notify \/ FS_Join

SpecLife == InitLife /\ [][NextLife]_vars

\* C15: no Stop call joins a thread that is not joinable, and every step of a
\* Stop call made on a stopped object (a second Stop in a row, or a Stop of
\* an object that was never started) leaves the object as it was.
C15_StopIdempotent ==
  [][/\ cm_stop'.pc # "threw"
     /\ fsm_stop'.pc # "threw"
     /\ (cm_stop' # cm_stop /\ ~cm_stop'.entered_running) =>
           UNCHANGED <<cm_running_, cl_pc, timer_pc, condition_update_queue_, timer_queue_,
                       condition_values_, all_conditions_>>
     /\ (fsm_stop' # fsm_stop /\ ~fsm_stop'.entered_running) =>
           UNCHANGED <<running_, initialized_, fsm_threads, state_event_handler_>>]_vars

\* the machine was started and two Stop calls have returned, the second on the stopped machine
C15_Witness ==
  /\ fsm_stop.n = 2
  /\ fsm_stop.pc = "idle"
  /\ ~fsm_stop.entered_running
  /\ last_call.op = "Start"
  /\ last_call.ret = "true"
  /\ ~running_

\* C16: a Start call returns false and leaves running_ and the threads alone
\* when Init has not succeeded or the machine runs; otherwise it returns
\* true, sets running_ and creates the four threads.
C16_StartGuarded ==
  [][Called("Start") =>
       IF initialized_ /\ ~running_
       THEN /\ last_call'.ret = "true"
            /\ running_'
            /\ \A t \in FsmThreads : fsm_threads[t] = "none" /\ fsm_threads'[t] = "while"
       ELSE /\ last_call'.ret = "false"
            /\ UNCHANGED <<running_, fsm_threads>>]_vars

\* a Start call on the running machine was rejected
C16_Witness ==
  /\ last_call.op = "Start"
  /\ last_call.ret = "false"
  /\ last_call.running
  /\ running_

\* C19: no step taken while the machine runs changes the registered callbacks.
C19_CallbacksFixedWhileRunning ==
  [][running_ => state_event_handler_' = state_event_handler_]_vars


(***************************************************************************)
(* ConditionManager::CheckConditions on arbitrary lists of conditions      *)
(* without duration: the stored values are drawn from 0..MaxValue and a    *)
(* caller passes every list of up to MaxConds registered descriptors.      *)
(***************************************************************************)
\* two ranges, and no range at all
CondTempEnds == [name |-> "temp", range_values |-> << <<0, 0>>, <<2, 2>> >>, duration |-> 0]
CondPowerNever == [name |-> "power", range_values |-> <<>>, duration |-> 0]

\* the condition of the multi-range test: 10..20 and 30..40
CondTempBands == [name |-> "temp", range_values |-> << <<10, 20>>, <<30, 40>> >>, duration |-> 0]
\* a descriptor whose name was never registered and has no stored value
CondGhost == [name |-> "ghost", range_values |-> << <<0, 2>> >>, duration |-> 0]

CheckDescriptors == {CondTemp, CondPower, CondTempEnds, CondPowerNever, CondTempBands, CondGhost}

\* stored values of "temp" around the bounds of CondTempBands
ProbeValues == {9, 10, 15, 20, 21, 25, 29, 30, 35, 40, 41}

CheckLists == UNION {[1..n -> CheckDescriptors] : n \in 0..MaxConds}

InitCheck ==
  /\ component = "components"
  /\ states_ = ConfigStates
  /\ current_state_ = "A1"
  /\ transitions_ = <<>>
  /\ tm_running_ = FALSE
  /\ event_definitions_ = <<>>
  /\ all_conditions_ = <<CondTemp, CondPower, CondTempEnds, CondPowerNever, CondTempBands>>
  /\ \E temp \in (0..MaxValue) \cup ProbeValues, power \in 0..MaxValue :
        condition_values_ = InitialValues([n \in ConditionNames |->
                                             IF n = "temp" THEN temp ELSE power])
  /\ now = 0
  /\ InitIdle

\* a caller runs CheckConditions(conditions, op, condition_infos) once
CheckConditionsCall(conditions, op) ==
  /\ check_call = NoCheck
  /\ check_call' = [conditions |-> conditions, op |-> op,
                    threw |-> CheckConditionsThrows(conditions, op),
                    result |-> IF CheckConditionsThrows(conditions, op) THEN FALSE
                               ELSE CheckConditions(conditions, op)]
  /\ UNCHANGED <<smVars, wdVars, tmVars, defVars, lifeVars, cmVars, now, ehVars, hier_call, value_call,
                 tm_hist, sm_running_, tt_pc, gh, last_call, api_calls>>

CallCheckConditions ==
  \E conditions \in CheckLists, op \in {"AND", "OR"} : CheckConditionsCall(conditions, op)

\* a caller runs GetConditionValue(name, value) once
CallGetConditionValue ==
  /\ value_call = NoValueCall
  /\ \E name \in ConditionNames \cup {"ghost"} :
        value_call' = [name |-> name, value |-> GetConditionValue(name)]
  /\ UNCHANGED <<smVars, wdVars, tmVars, defVars, lifeVars, cmVars, now, ehVars, hier_call, check_call, tm_hist,
                 sm_running_, tt_pc, gh, last_call, api_calls>>

NextCheck == CallCheckConditions \/ CallGetConditionValue


SpecCheck == InitCheck /\ [][NextCheck]_vars

\* the current value of the condition lies in one of its ranges
InSomeRange(cond) ==
  \E range \in Elements(cond.range_values) :
     /\ range[1] <= GetConditionValue(cond.name)
     /\ GetConditionValue(cond.name) <= range[2]

\* C20: for conditions without duration CheckConditions returns true for
\* the empty list, for "AND" whether every condition has its value in one
\* of its ranges, for "OR" whether at least one has.
C20_CheckConditionsIsAllOrAny ==
  (check_call.op # "" /\ ~check_call.threw) =>
     check_call.result =
        IF check_call.conditions = <<>> THEN TRUE
        ELSE IF check_call.op = "AND"
             THEN \A cond \in Elements(check_call.conditions) : InSomeRange(cond)
             ELSE \E cond \in Elements(check_call.conditions) : InSomeRange(cond)

\* an "OR" call whose first condition fails and whose last condition holds
C20_Witness ==
  /\ check_call.op = "OR"
  /\ Len(check_call.conditions) >= 2
  /\ ~InSomeRange(check_call.conditions[1])
  /\ InSomeRange(check_call.conditions[Len(check_call.conditions)])
  /\ check_call.result


\* C21: a single condition is met iff the stored value lies in the union of
\* its ranges, bounds included; for the ranges [10,20] and [30,40] this is
\* the case for 15 and 35 and not for 25.
C21_MultiRangeMatchesAnyRange ==
  (Len(check_call.conditions) = 1 /\ ~check_call.threw) =>
     LET cond == check_call.conditions[1]
         value == condition_values_[cond.name].value
     IN /\ check_call.result =
             (value \in UNION {range[1]..range[2] : range \in Elements(cond.range_values)})
        /\ cond = CondTempBands =>
             /\ value \in {15, 35} => check_call.result
             /\ value = 25 => ~check_call.result

\* the value 35 was tested against the two ranges and found in the second
C21_Witness ==
  /\ check_call.conditions = <<CondTempBands>>
  /\ condition_values_["temp"].value = 35
  /\ check_call.result

\* the first condition of a list CheckConditions reaches that has no stored value
Unset(conditions) == {i \in 1..Len(conditions) : conditions[i].name \notin DOMAIN condition_values_}

\* C22: a CheckConditions call whose first condition has no stored value
\* throws, and a call throws only if the list names a condition without
\* stored value; GetConditionValue returns 0 for such a name and the stored
\* value otherwise; neither call changes condition_values_.
C22_UnsetThrowsGetReturnsZero ==
  [][(check_call' # check_call \/ value_call' # value_call) =>
       /\ condition_values_' = condition_values_
       /\ 1 \in Unset(check_call'.conditions) => check_call'.threw
       /\ check_call'.threw => Unset(check_call'.conditions) # {}
       /\ value_call'.name \notin DOMAIN condition_values_ => value_call'.value = 0
       /\ value_call'.name \in DOMAIN condition_values_ =>
             value_call'.value = condition_values_[value_call'.name].value]_vars

\* both calls were made on the name without stored value
C22_Witness ==
  /\ check_call.threw
  /\ check_call.conditions # <<>>
  /\ check_call.conditions[Len(check_call.conditions)] = CondGhost
  /\ value_call.name = "ghost"
  /\ value_call.value = 0


\* the rule an entry of transitions_ holds
RuleOf(entry) ==
  [from |-> entry.from, events |-> entry.events, to |-> entry.to,
   conditions |-> entry.conditions, conditionsOperator |-> entry.conditionsOperator]

\* the event names the configuration calls use
SetupEvents == UNION {Elements(rule.events) : rule \in SetupRules}

\* C24: while the TransitionManager runs, FindTransition(rule.from, Ei)
\* returns every rule AddTransition accepted, for each of its events Ei
\* (as long as Clear did not empty the table), and FindTransition(s, e)
\* returns only accepted rules whose source state is s and whose event list
\* contains e.
C24_FindReturnsAddedRules ==
  tm_running_ =>
    /\ ~tm_hist.cleared =>
         \A rule \in tm_hist.added : \A i \in 1..Len(rule.events) :
            \E entry \in Elements(FindTransition(rule.from, rule.events[i])) :
               RuleOf(entry) = rule
    /\ \A s \in SetupStates, e \in SetupEvents :
         \A entry \in Elements(FindTransition(s, e)) :
            /\ entry.from = s
            /\ e \in Elements(entry.events)
            /\ RuleOf(entry) \in tm_hist.added

\* the rule with two events is found under its second event
C24_Witness ==
  /\ tm_running_
  /\ \E rule \in tm_hist.added : Len(rule.events) = 2
  /\ FindTransition("A", "E2") # <<>>
  /\ FindTransition("A", "E1") # <<>>


(***************************************************************************)
(* Duration conditions: ProcessConditionUpdates pushes duration timers,    *)
(* TimerLoop pops them at their expiry time and notifies when the value    *)
(* was held.  The condition thread, the timer thread, the callers of       *)
(* SetConditionValue and CheckConditions and the clock run side by side.   *)
(***************************************************************************)
\* "temp" held in 1..2 for one tick, and held at 2 for two ticks
CondTempHold == [name |-> "temp", range_values |-> << <<1, 2>> >>, duration |-> 1]
CondTempLong == [name |-> "temp", range_values |-> << <<2, 2>> >>, duration |-> 2]

\* the registered descriptors: the two duration-gated ones, alone or behind
\* an ungated descriptor of the same condition
TimerConfigs == {<<CondTempLong, CondTempHold>>, <<CondTemp, CondTempLong, CondTempHold>>}

InitTimer ==
  /\ component = "components"
  /\ states_ = ConfigStates
  /\ current_state_ = "A1"
  /\ transitions_ = <<>>
  /\ tm_running_ = FALSE
  /\ event_definitions_ = <<>>
  /\ all_conditions_ \in TimerConfigs
  /\ condition_values_ = InitialValues([n \in ConditionNames |-> 0])
  /\ now = 0
  /\ InitIdle

\* the entries timer_queue_.top() can be: those with the least expiryTime
TopIndices(queue) ==
  {i \in 1..Len(queue) : \A j \in 1..Len(queue) : queue[i].expiryTime <= queue[j].expiryTime}

\* the queue after pop() took the entry at position i
PopAt(queue, i) == SubSeq(queue, 1, i - 1) \o SubSeq(queue, i + 1, Len(queue))

\* variant: the entry is taken without comparing now with its expiryTime
TL_TopEager ==
  /\ timer_pc = "top"
  /\ \E i \in TopIndices(timer_queue_) :
        /\ timer_frame' = [timer_frame EXCEPT !.expiredCondition = timer_queue_[i]]
        /\ timer_queue_' = PopAt(timer_queue_, i)
        /\ timer_pc' = "verify"
  /\ UNCHANGED <<smVars, wdVars, tmVars, defVars, apiVars, component, lkVars, notify_log, cm_stop, fsmVars, now,
                 ehVars, cm_running_, condition_values_, condition_update_queue_,
                 condition_update_mutex_, updates, cl_pc, applied, next_seq, last_enq,
                 ext_calls, trig_log>>

\* lines 214-228: the top entry is popped when it has expired, else the
\* thread waits until its expiryTime
TL_Top ==
  /\ timer_pc = "top"
  /\ \E i \in TopIndices(timer_queue_) :
        IF now >= timer_queue_[i].expiryTime
        THEN /\ timer_frame' = [timer_frame EXCEPT !.expiredCondition = timer_queue_[i]]
             /\ timer_queue_' = PopAt(timer_queue_, i)
             /\ timer_pc' = "verify"
        ELSE /\ timer_frame' = [timer_frame EXCEPT !.nextWaitTime = timer_queue_[i].expiryTime]
             /\ timer_pc' = "timed_parked"
             /\ UNCHANGED timer_queue_
  /\ UNCHANGED <<smVars, wdVars, tmVars, defVars, apiVars, component, lkVars, notify_log, cm_stop, fsmVars, now,
                 ehVars, cm_running_, condition_values_, condition_update_queue_,
                 condition_update_mutex_, updates, cl_pc, applied, next_seq, last_enq,
                 ext_calls, trig_log>>

\* wait_until returns because nextWaitTime was reached
TL_Timeout ==
  /\ timer_pc = "timed_parked"
  /\ now >= timer_frame.nextWaitTime
  /\ timer_pc' = "timed_woken"
  /\ UNCHANGED <<smVars, wdVars, tmVars, defVars, apiVars, component, lkVars, timer_frame, notify_log, cm_stop,
                 fsmVars, cmVars, now, ehVars>>

\* wait_until returns spuriously
TL_TimedSpurious ==
  /\ timer_pc = "timed_parked"
  /\ timer_pc' = "timed_woken"
  /\ UNCHANGED <<smVars, wdVars, tmVars, defVars, apiVars, component, lkVars, timer_frame, notify_log, cm_stop,
                 fsmVars, cmVars, now, ehVars>>

\* line 227: continue after wait_until, whatever ended it
TL_Continue ==
  /\ timer_pc = "timed_woken"
  /\ timer_pc' = "while"
  /\ UNCHANGED <<smVars, wdVars, tmVars, defVars, apiVars, component, lkVars, timer_frame, notify_log, cm_stop,
                 fsmVars, cmVars, now, ehVars>>

\* lines 240-250: is the popped entry still valid, under condition_values_mutex_
StillHeld(entry) ==
  /\ entry.name \in DOMAIN condition_values_
  /\ condition_values_[entry.name].value = entry.value
  /\ now - condition_values_[entry.name].lastChangedTime >= entry.duration

TL_Verify ==
  /\ timer_pc = "verify"
  /\ timer_pc' = IF StillHeld(timer_frame.expiredCondition) THEN "notify" ELSE "while"
  /\ UNCHANGED <<smVars, wdVars, tmVars, defVars, apiVars, component, lkVars, timer_frame, notify_log, cm_stop,
                 fsmVars, cmVars, now, ehVars>>

\* lines 254-257: NotifyConditionChange runs TriggerEvent on the timer thread
TL_Notify ==
  /\ timer_pc = "notify"
  /\ condition_update_mutex_ = "free"
  /\ event_mutex_ = "free"
  /\ LET r == TriggerEvent
     IN /\ condition_update_queue_' = r.updq
        /\ next_seq' = r.seq
        /\ last_enq' = r.le
        /\ event_queue_' = r.evq
        /\ next_id' = r.id
        /\ trig_log' = r.tl
  /\ LET entry == timer_frame.expiredCondition
     IN notify_log' = Append(notify_log, [seq |-> entry.seq, name |-> entry.name,
                                          value |-> entry.value, duration |-> entry.duration])
  /\ el_pc' = NotifyEventCv(el_pc)
  /\ cl_pc' = IF TriggerEvent.updq # condition_update_queue_
             THEN NotifyConditionCv(cl_pc) ELSE cl_pc
  /\ timer_pc' = "while"
  /\ UNCHANGED <<smVars, wdVars, tmVars, defVars, apiVars, component, lkVars, timer_frame, cm_stop, fsmVars, now,
                 cm_running_, condition_values_, condition_update_mutex_, timer_queue_,
                 updates, applied, ext_calls, eh_running_, event_mutex_, pe, stop_pc, log>>

TimerExpiry == TL_Top \/ TL_Timeout \/ TL_Continue \/ TL_Verify \/ TL_Notify

\* the ConditionManager at work: its two threads, its callers and the clock
TimerRun ==
  \/ CM_Start
  \/ \E value \in 0..MaxValue : SetConditionValue("temp", value)
  \/ ConditionThread
  \/ CL_Spurious
  \/ TimerThread
  \/ TimerExpiry
  \/ TL_Spurious
  \/ TL_TimedSpurious
  \/ Tick

NextTimer ==
  \/ TimerRun
  \/ \E cond \in {CondTempHold, CondTempLong} : CheckConditionsCall(<<cond>>, "AND")

SpecTimer == InitTimer /\ [][NextTimer]_vars

\* Scheduling: the manager is started, the clock advances, and a thread
\* that can take a step again and again eventually takes it (no thread is
\* kept from a mutex forever); callers and spurious wakeups need not happen.
SpecTimerFair ==
  /\ InitTimer
  /\ [][TimerRun]_vars
  /\ WF_vars(CM_Start)
  /\ SF_vars(ConditionThread)
  /\ SF_vars(TimerThread)
  /\ SF_vars(TimerExpiry)
  /\ WF_vars(Tick)


(***************************************************************************)
(* Reading the histories of the condition thread and the timer thread      *)
(***************************************************************************)
\* the greatest element of a non-empty set of numbers
Last(S) == CHOOSE m \in S : \A x \in S : x <= m

\* the value the condition of applied[i] had before applied[i] was applied;
\* every registered condition starts at 0
ValueBefore(i) ==
  LET earlier == {j \in 1..(i - 1) : applied[j].name = applied[i].name}
  IN IF earlier = {} THEN 0 ELSE applied[Last(earlier)].value

\* the applied updates of name that changed its value
Changes(name) ==
  {i \in 1..Len(applied) : applied[i].name = name /\ applied[i].value # ValueBefore(i)}

\* the call time of the last applied update that changed the value of name,
\* the registration time 0 when there was none
LastChangeTime(name) ==
  IF Changes(name) = {} THEN 0 ELSE applied[Last(Changes(name))].updateTime

\* the value of name changed after the update that pushed the timer entry
ChangedSince(entry) ==
  \E i \in Changes(entry.name) : applied[i].seq > entry.seq

\* C23: CheckConditions reports a condition with duration D > 0 as met iff
\* the stored value is in one of its ranges and at least D ticks have passed
\* since the call time of the last applied update that changed the value;
\* an update that sets the same value again does not restart the clock.
C23_DurationCountsFromLastChange ==
  [][check_call' # check_call =>
       LET cond == check_call'.conditions[1]
           value == condition_values_[cond.name].value
       IN check_call'.result =
            /\ value \in UNION {range[1]..range[2] : range \in Elements(cond.range_values)}
            /\ now - LastChangeTime(cond.name) >= cond.duration]_vars

\* 1 was set, then 2 (still in range, the clock restarted), then the
\* condition was found met
C23_Witness ==
  /\ check_call.conditions = <<CondTempHold>>
  /\ check_call.result
  /\ Len(applied) = 2
  /\ applied[1].value = 1
  /\ applied[2].value = 2
  /\ applied[2].updateTime > 0

Gated(update) ==
  {i \in 1..Len(all_conditions_) :
     /\ all_conditions_[i].name = update.name
     /\ all_conditions_[i].duration > 0
     /\ update.value \in UNION {range[1]..range[2] :
                                  range \in Elements(all_conditions_[i].range_values)}}

\* C28: applying an update that changes the value pushes a duration timer
\* iff a duration-gated descriptor of the condition has a range containing
\* the new value; exactly one entry is pushed, with the duration of the
\* first such descriptor.
C28_TimerOfFirstGatedDescriptor ==
  [][(cl_pc = "apply" /\ Len(applied') = Len(applied) + 1) =>
       LET update == NextUpdate(updates).update
           changed == condition_values_[update.name].value # update.value
           pushed == Len(timer_queue_') - Len(timer_queue_)
       IN /\ pushed \in {0, 1}
          /\ ~changed => pushed = 0
          /\ changed => (pushed = 1) = (Gated(update) # {})
          /\ pushed = 1 =>
               /\ Gated(update) # {}
               /\ timer_queue_'[Len(timer_queue_')].duration =
                    all_conditions_[CHOOSE i \in Gated(update) :
                                      \A j \in Gated(update) : i <= j].duration]_vars

\* C29: an entry is popped only at or after its expiry time and only when
\* no pending entry expires earlier, and a timer thread parked in wait_until
\* waits for the earliest expiry time of the queue.
C29_PopsAtExpiryEarliestFirst ==
  [][/\ (timer_pc = "top" /\ timer_pc' = "verify") =>
          LET entry == timer_frame'.expiredCondition
          IN /\ now >= entry.expiryTime
             /\ \A i \in 1..Len(timer_queue_) : entry.expiryTime <= timer_queue_[i].expiryTime
     /\ timer_pc' = "timed_parked" =>
          /\ timer_queue_' # <<>>
          /\ \A i \in 1..Len(timer_queue_') :
                timer_frame'.nextWaitTime <= timer_queue_'[i].expiryTime]_vars

\* the thread waited for an entry, an entry that expires earlier was pushed
\* and ended the wait
C29_Witness ==
  /\ timer_pc = "timed_woken"
  /\ \E i \in 1..Len(timer_queue_) : timer_queue_[i].expiryTime < timer_frame.nextWaitTime

\* C30: every applied update that changed a value is followed by a
\* NotifyConditionChange call for it, which enqueues the internal event.
C30_ChangeLeadsToInternalEvent ==
  \A seq \in 1..MaxUpdates :
     (\E i \in Changes("temp") : applied[i].seq = seq)
        ~> (\E k \in 1..Len(notify_log) : notify_log[k].seq = seq)


(***************************************************************************)
(* State timeouts: StateManager::SetState arms current_state_timeout_,     *)
(* StateTimeoutLoop calls the state timeout callback at each expiry, and   *)
(* the callback (EventHandler::TriggerStateTimeoutEvent) enqueues          *)
(* STATE_TIMEOUT_EVENT.                                                    *)
(***************************************************************************)
\* the states of the configuration, "A1" with a timeout of two ticks and "B"
\* with a timeout of one
TimeoutStates ==
  [s \in StateNames |->
     [parent |-> ConfigStates[s].parent,
      timeout |-> CASE s = "A1" -> 2 [] s = "B" -> 1 [] OTHER -> 0]]

InitTimeout ==
  /\ component = "components"
  /\ states_ = TimeoutStates
  /\ current_state_ = NoState
  /\ transitions_ = <<>>
  /\ tm_running_ = FALSE
  /\ event_definitions_ = <<>>
  /\ all_conditions_ = <<>>
  /\ condition_values_ = InitialValues([n \in ConditionNames |-> 0])
  /\ now = 0
  /\ InitIdle

\* StateManager::SetState called by the thread that owns the current state
SM_SetState(state) ==
  /\ api_calls < MaxCalls
  /\ TimeoutMutexFree
  /\ api_calls' = api_calls + 1
  /\ last_call' = ApiCall("SetState", BoolRet(state \in DOMAIN states_), sm_running_)
  /\ current_state_' = SetState(state)
  /\ current_state_timeout_' = TimeoutAfter(state)
  /\ tt_pc' = TimeoutThreadAfter(state)
  /\ UNCHANGED <<states_, tt_frame, timeout_log, tmVars, defVars, hier_call, check_call,
                 value_call, tm_hist, sm_running_, gh, lifeVars, cmVars, now, ehVars>>

\* ---- StateManager::StateTimeoutLoop
\* lines 184-191: the loop condition, the lock and the test of current_state_timeout_
TT_While ==
  /\ tt_pc = "while"
  /\ tt_pc' = IF ~sm_running_ THEN "exited"
             ELSE IF current_state_timeout_.state = NoState \/ current_state_timeout_.timeout <= 0
                  THEN "pred" ELSE "check"
  /\ UNCHANGED <<smVars, wdVars, tmVars, defVars, hier_call, check_call, value_call, tm_hist,
                 sm_running_, gh, last_call, api_calls, lifeVars, cmVars, now, ehVars>>

\* lines 192-195: the predicate of timeout_cv_.wait
TT_Pred ==
  /\ tt_pc = "pred"
  /\ tt_pc' = IF \/ ~sm_running_
                 \/ current_state_timeout_.state # NoState /\ current_state_timeout_.timeout > 0
              THEN "after_wait" ELSE "block"
  /\ UNCHANGED <<smVars, wdVars, tmVars, defVars, hier_call, check_call, value_call, tm_hist,
                 sm_running_, gh, last_call, api_calls, lifeVars, cmVars, now, ehVars>>

TT_Block ==
  /\ tt_pc = "block"
  /\ tt_pc' = "parked"
  /\ UNCHANGED <<smVars, wdVars, tmVars, defVars, hier_call, check_call, value_call, tm_hist,
                 sm_running_, gh, last_call, api_calls, lifeVars, cmVars, now, ehVars>>

TT_Spurious ==
  /\ tt_pc = "parked"
  /\ tt_pc' = "woken"
  /\ UNCHANGED <<smVars, wdVars, tmVars, defVars, hier_call, check_call, value_call, tm_hist,
                 sm_running_, gh, last_call, api_calls, lifeVars, cmVars, now, ehVars>>

TT_Wake ==
  /\ tt_pc = "woken"
  /\ tt_pc' = "pred"
  /\ UNCHANGED <<smVars, wdVars, tmVars, defVars, hier_call, check_call, value_call, tm_hist,
                 sm_running_, gh, last_call, api_calls, lifeVars, cmVars, now, ehVars>>

\* lines 197-199: break when stopped
TT_AfterWait ==
  /\ tt_pc = "after_wait"
  /\ tt_pc' = IF ~sm_running_ THEN "exited" ELSE "check"
  /\ UNCHANGED <<smVars, wdVars, tmVars, defVars, hier_call, check_call, value_call, tm_hist,
                 sm_running_, gh, last_call, api_calls, lifeVars, cmVars, now, ehVars>>

\* lines 202-212: at the expiry time the timeout is due and the next expiry
\* is scheduled, else the lock is released for the timed wait
TT_Check ==
  /\ tt_pc = "check"
  /\ IF now >= current_state_timeout_.expiryTime
     THEN /\ current_state_timeout_' =
               [current_state_timeout_ EXCEPT !.expiryTime = now + current_state_timeout_.timeout]
          /\ tt_pc' = "handle"
          /\ UNCHANGED tt_frame
     ELSE /\ tt_frame' = [waitTime |-> current_state_timeout_.expiryTime]
          /\ tt_pc' = "relock"
          /\ UNCHANGED current_state_timeout_
  /\ UNCHANGED <<smVars, timeout_log, tmVars, defVars, hier_call, check_call, value_call,
                 tm_hist, sm_running_, gh, last_call, api_calls, lifeVars, cmVars, now, ehVars>>

\* line 214: std::unique_lock<std::mutex> waitLock(timeout_mutex_)
TT_Relock ==
  /\ tt_pc = "relock"
  /\ tt_pc' = "timed_pred"
  /\ UNCHANGED <<smVars, wdVars, tmVars, defVars, hier_call, check_call, value_call, tm_hist,
                 sm_running_, gh, last_call, api_calls, lifeVars, cmVars, now, ehVars>>

\* lines 215-220: wait_until returns when its predicate holds or waitTime is
\* reached, and the loop continues
TT_TimedPred ==
  /\ tt_pc = "timed_pred"
  /\ tt_pc' = IF \/ ~sm_running_
                 \/ current_state_timeout_.state = NoState
                 \/ current_state_timeout_.expiryTime # tt_frame.waitTime
                 \/ now >= tt_frame.waitTime
              THEN "while" ELSE "timed_parked"
  /\ UNCHANGED <<smVars, wdVars, tmVars, defVars, hier_call, check_call, value_call, tm_hist,
                 sm_running_, gh, last_call, api_calls, lifeVars, cmVars, now, ehVars>>

TT_Timeout ==
  /\ tt_pc = "timed_parked"
  /\ now >= tt_frame.waitTime
  /\ tt_pc' = "timed_woken"
  /\ UNCHANGED <<smVars, wdVars, tmVars, defVars, hier_call, check_call, value_call, tm_hist,
                 sm_running_, gh, last_call, api_calls, lifeVars, cmVars, now, ehVars>>

TT_TimedSpurious ==
  /\ tt_pc = "timed_parked"
  /\ tt_pc' = "timed_woken"
  /\ UNCHANGED <<smVars, wdVars, tmVars, defVars, hier_call, check_call, value_call, tm_hist,
                 sm_running_, gh, last_call, api_calls, lifeVars, cmVars, now, ehVars>>

TT_TimedWake ==
  /\ tt_pc = "timed_woken"
  /\ tt_pc' = "timed_pred"
  /\ UNCHANGED <<smVars, wdVars, tmVars, defVars, hier_call, check_call, value_call, tm_hist,
                 sm_running_, gh, last_call, api_calls, lifeVars, cmVars, now, ehVars>>

\* variant: the timeout thread itself leaves the state that timed out
TT_HandleSetsState ==
  /\ tt_pc = "handle"
  /\ event_mutex_ = "free"
  /\ timeout_log' = Append(timeout_log, [state |-> current_state_,
                                          timeout |-> current_state_timeout_.timeout,
                                          time |-> now])
  /\ event_queue_' = PushEvent(event_queue_, [name |-> STATE_TIMEOUT_EVENT, id |-> next_id])
  /\ next_id' = next_id + 1
  /\ el_pc' = NotifyEventCv(el_pc)
  /\ tt_pc' = "while"
  /\ current_state_' = IF current_state_ \in DOMAIN states_ /\ states_[current_state_].parent # NoState
                      THEN states_[current_state_].parent ELSE current_state_
  /\ UNCHANGED <<states_, current_state_timeout_, tt_frame, tmVars, defVars, hier_call,
                 check_call, value_call, tm_hist, sm_running_, gh, last_call, api_calls,
                 lifeVars, cmVars, now, eh_running_, event_mutex_, pe, stop_pc, log>>

\* lines 224-226 and HandleStateTimeout: the callback gets current_state_
\* and current_state_timeout_.timeout as they are now, read without a lock;
\* TriggerStateTimeoutEvent passes STATE_TIMEOUT_EVENT to HandleEvent
TT_Handle ==
  /\ tt_pc = "handle"
  /\ event_mutex_ = "free"
  /\ timeout_log' = Append(timeout_log, [state |-> current_state_,
                                          timeout |-> current_state_timeout_.timeout,
                                          time |-> now])
  /\ event_queue_' = PushEvent(event_queue_, [name |-> STATE_TIMEOUT_EVENT, id |-> next_id])
  /\ next_id' = next_id + 1
  /\ el_pc' = NotifyEventCv(el_pc)
  /\ tt_pc' = "while"
  /\ UNCHANGED <<smVars, current_state_timeout_, tt_frame, tmVars, defVars, hier_call,
                 check_call, value_call, tm_hist, sm_running_, gh, last_call, api_calls,
                 lifeVars, cmVars, now, eh_running_, event_mutex_, pe, stop_pc, log>>

TimeoutThread ==
  \/ TT_While \/ TT_Pred \/ TT_Block \/ TT_Wake \/ TT_AfterWait \/ TT_Check \/ TT_Relock
  \/ TT_TimedPred \/ TT_Timeout \/ TT_TimedWake \/ TT_Handle

NextTimeout ==
  \/ SM_Start
  \/ \E state \in {"A1", "A2", "B"} : SM_SetState(state)
  \/ TimeoutThread
  \/ TT_Spurious
  \/ TT_TimedSpurious
  \/ Tick

SpecTimeout == InitTimeout /\ [][NextTimeout]_vars

\* the STATE_TIMEOUT_EVENTs in the event queue
TimeoutEvents == {i \in 1..Len(event_queue_) : event_queue_[i].name = STATE_TIMEOUT_EVENT}

\* C25: the state timeout callback is called only for a current state with
\* a timeout > 0, with that timeout, and every call enqueues one
\* STATE_TIMEOUT_EVENT; a current state with timeout 0 never triggers it.
C25_TimeoutOnlyForTimedState ==
  /\ Cardinality(TimeoutEvents) = Len(timeout_log)
  /\ \A k \in 1..Len(timeout_log) :
        /\ timeout_log[k].state \in DOMAIN states_
        /\ states_[timeout_log[k].state].timeout > 0
        /\ timeout_log[k].timeout = states_[timeout_log[k].state].timeout

\* C34: the state timeout callback is called only while the armed timeout
\* is that of the current state and that state has been current for at
\* least its timeout; after SetState switched to a state without timeout no
\* call is made.
C34_CallbackOnlyForHeldState ==
  [][timeout_log' # timeout_log =>
       /\ current_state_timeout_.state = current_state_
       /\ current_state_timeout_.timeout > 0
       /\ now >= current_state_timeout_.enterTime + current_state_timeout_.timeout]_vars


(***************************************************************************)
(* The engine: the event thread, the condition thread, the timer thread    *)
(* and the timeout thread run together.  Events come from inside only: the *)
(* internal event of a condition change and the state timeout event.       *)
(***************************************************************************)
EngineRules ==
  << [from |-> "A1", event |-> STATE_TIMEOUT_EVENT, to |-> "B", conditions |-> <<>>,
      conditionsOperator |-> "AND"],
     [from |-> "A1", event |-> INTERNAL_EVENT, to |-> "A2", conditions |-> <<CondTemp>>,
      conditionsOperator |-> "AND"],
     [from |-> "A2", event |-> STATE_TIMEOUT_EVENT, to |-> "B", conditions |-> <<>>,
      conditionsOperator |-> "AND"] >>

\* the configuration is loaded, ConfigLoader called SetState("A1") at time
\* 0, and every component was started: the four threads are about to run
InitEngine ==
  /\ component = "components"
  /\ states_ = TimeoutStates
  /\ current_state_ = "A1"
  /\ current_state_timeout_ = [state |-> "A1", timeout |-> TimeoutStates["A1"].timeout,
                               enterTime |-> 0, expiryTime |-> TimeoutStates["A1"].timeout]
  /\ transitions_ = EngineRules
  /\ tm_running_ = TRUE
  /\ event_definitions_ = <<>>
  /\ all_conditions_ = <<CondTemp, CondTempHold>>
  /\ condition_values_ = InitialValues([n \in ConditionNames |-> 0])
  /\ now = 0
  /\ sm_running_ = TRUE
  /\ cm_running_ = TRUE
  /\ eh_running_ = TRUE
  /\ tt_pc = "while"
  /\ timer_pc = "while"
  /\ cl_pc = "while"
  /\ el_pc = "while"
  /\ InitQuiet

NextEngine ==
  \/ \E value \in 0..1 : ext_calls = 0 /\ SetConditionValue("temp", value)
  \/ EventThread
  \/ ConditionThread
  \/ TimerThread \/ TimerExpiry
  \/ TimeoutThread
  \/ Tick

SpecEngine == InitEngine /\ [][NextEngine]_vars


\* C26: while the engine runs, current_state_ changes only in the SetState
\* step of ProcessEvent on the event thread, to the target of a rule whose
\* conditions were found to hold for the event being processed; no step of
\* the condition thread, the timer thread or the timeout thread changes it.
C26_OnlyEventThreadWritesState ==
  [][current_state_' # current_state_ =>
       /\ el_pc = "pe_commit"
       /\ el_pc' # el_pc
       /\ current_state_' = pe.rules[pe.idx].to
       /\ \E k \in 1..Len(log) :
             /\ log[k].cb = "check"
             /\ log[k].id = pe.event.id
             /\ log[k].ok
             /\ log[k].to = current_state_'
       /\ cl_pc' = cl_pc
       /\ timer_pc' = timer_pc
       /\ timeout_log' = timeout_log
       /\ notify_log' = notify_log]_vars

\* all four threads have acted: a condition update was applied, its timer
\* fired, the internal event moved the machine to "A2" and a state timeout
\* event moved it on to "B"
C26_Witness ==
  /\ current_state_ = "B"
  /\ applied # <<>>
  /\ \E k \in 1..Len(notify_log) : notify_log[k].duration > 0
  /\ timeout_log # <<>>
  /\ \E k \in 1..Len(log) : log[k].cb = "commit" /\ log[k].to = "A2"


(***************************************************************************)
(* Event synthesis: external threads switch the two conditions on and off, *)
(* the condition thread applies the updates and runs TriggerEvent over the *)
(* edge-mode definition "HOT" and the level-mode definition "LVL".         *)
(***************************************************************************)
\* number of SetConditionValue calls made by external threads
MaxSynthUpdates == 3

NextSynth ==
  \/ CM_Start
  \/ \E name \in ConditionNames, value \in 0..1 :
        SetConditionValueCall(name, value, MaxSynthUpdates)
  \/ ConditionThread
  \/ CL_Spurious

SpecSynth == InitCond /\ [][NextSynth]_vars

\* the definition with the name
DefinitionOf(name) ==
  CHOOSE def \in {event_definitions_[k] : k \in 1..Len(event_definitions_)} : def.name = name

\* C31: an evaluation that finds the conditions not holding and the flag 0
\* enqueues nothing; a level-mode definition never enqueues <name>_RESET; an
\* edge-mode definition whose conditions do not hold while the flag is 1
\* enqueues <name>_RESET, once per change from holding to not holding: when
\* an evaluation enqueued <name>_RESET, no later evaluation does before the
\* conditions were found to hold again.
C31_OneResetPerFall ==
  /\ \A i \in 1..Len(trig_log) :
        LET def == DefinitionOf(trig_log[i].def)
        IN /\ (~trig_log[i].holds /\ trig_log[i].flag = 0) => trig_log[i].fired = ""
           /\ def.trigger_mode = "level" => trig_log[i].fired \in {"", def.name}
           /\ (def.trigger_mode = "edge" /\ ~trig_log[i].holds /\ trig_log[i].flag = 1)
                 => trig_log[i].fired = def.name \o "_RESET"
  /\ \A i, j \in 1..Len(trig_log) :
        ( /\ i < j
          /\ trig_log[i].def = trig_log[j].def
          /\ trig_log[i].fired = trig_log[i].def \o "_RESET"
          /\ \A k \in i..j : trig_log[k].def = trig_log[i].def => ~trig_log[k].holds )
        => trig_log[j].fired = ""

\* the events with the name among those a step added to the event queue
Added(name) ==
  {k \in (Len(event_queue_) + 1)..Len(event_queue_') : event_queue_'[k].name = name}

\* C32: every TriggerEvent run adds to the event queue exactly one event
\* with the name of each level-mode definition whose conditions hold during
\* the run, whatever the flag, and none with the name of a level-mode
\* definition whose conditions do not hold.
C32_LevelFiresEveryEvaluation ==
  [][(cl_pc = "notify" /\ cl_pc' = "apply") =>
       \A k \in 1..Len(event_definitions_) :
          LET def == event_definitions_[k]
          IN def.trigger_mode = "level" =>
               Cardinality(Added(def.name)) =
                 IF CheckConditions(def.conditions, def.conditionsOperator) THEN 1 ELSE 0]_vars

\* the level-mode definition fired with its flag 0 and again with its flag 1
C32_Witness ==
  /\ \E i \in 1..Len(trig_log) :
        trig_log[i].def = "LVL" /\ trig_log[i].holds /\ trig_log[i].flag = 0
  /\ \E i \in 1..Len(trig_log) :
        trig_log[i].def = "LVL" /\ trig_log[i].holds /\ trig_log[i].flag = 1
  /\ Cardinality({k \in 1..Len(event_queue_) : event_queue_[k].name = "LVL"}) >= 2


(***************************************************************************)
(* A rule without trigger event guarded by a duration-gated condition: the *)
(* event thread, the condition thread and the timer thread run, external   *)
(* threads write "temp".  The rule from "A1" to "A2" asks for temp = 2     *)
(* held for two ticks; in the second configuration a rule from "B" that    *)
(* asks for temp in [1,2] held for one tick was loaded before it.          *)
(***************************************************************************)
\* number of SetConditionValue calls made by external threads
MaxHoldUpdates == 1

LongRule ==
  [from |-> "A1", event |-> INTERNAL_EVENT, to |-> "A2", conditions |-> <<CondTempLong>>,
   conditionsOperator |-> "AND"]

HoldRule ==
  [from |-> "B", event |-> INTERNAL_EVENT, to |-> "A1", conditions |-> <<CondTempHold>>,
   conditionsOperator |-> "AND"]

HoldConfigs == {<<LongRule>>, <<HoldRule, LongRule>>}

\* the configuration is loaded with initial state "A1" and every component
\* was started
InitHold ==
  /\ component = "components"
  /\ states_ = ConfigStates
  /\ current_state_ = "A1"
  /\ current_state_timeout_ = NoTimeout
  /\ transitions_ \in HoldConfigs
  /\ tm_running_ = TRUE
  /\ event_definitions_ = <<>>
  /\ all_conditions_ = Flatten([i \in 1..Len(transitions_) |-> transitions_[i].conditions])
  /\ condition_values_ = InitialValues([n \in ConditionNames |-> 0])
  /\ now = 0
  /\ sm_running_ = TRUE
  /\ cm_running_ = TRUE
  /\ eh_running_ = TRUE
  /\ tt_pc = "parked"
  /\ timer_pc = "while"
  /\ cl_pc = "while"
  /\ el_pc = "while"
  /\ InitQuiet

NextHold ==
  \/ \E value \in {0, 2} : SetConditionValueCall("temp", value, MaxHoldUpdates)
  \/ EventThread
  \/ ConditionThread
  \/ TimerThread \/ TimerExpiry
  \/ Tick

SpecHold == InitHold /\ [][NextHold]_vars

\* Scheduling: the clock advances and a thread that can take a step again
\* and again eventually takes it; callers need not call.
SpecHoldFair ==
  /\ InitHold
  /\ [][NextHold]_vars
  /\ SF_vars(EventThread)
  /\ SF_vars(ConditionThread)
  /\ SF_vars(TimerThread)
  /\ SF_vars(TimerExpiry)
  /\ WF_vars(Tick)

\* the value of temp is in the range of the rule's condition and has been
\* for the duration of the condition
HeldLong ==
  /\ ValueInRange(CondTempLong, condition_values_["temp"].value)
  /\ now - LastChangeTime("temp") >= CondTempLong.duration

\* no caller and no queue will change the value of temp again
Settled == ext_calls = MaxHoldUpdates /\ Drained

\* the application vetoed an event in OnPreEvent
Vetoed == \E k \in 1..Len(log) : log[k].cb = "pre" /\ ~log[k].ok

\* C33 (not before): the event thread finds the conditions of the rule to
\* "A2" satisfied only when temp is in range and has been held for the
\* duration, and the current state becomes "A2" only after that.
C33_NotBeforeHeld ==
  [][/\ ( /\ el_pc = "pe_rule"
          /\ Len(log') = Len(log) + 1
          /\ log'[Len(log')].cb = "check"
          /\ log'[Len(log')].ok ) => HeldLong
     /\ (current_state_ = "A1" /\ current_state_' = "A2") =>
           \E k \in 1..Len(log) :
              log[k].cb = "check" /\ log[k].id = pe.event.id /\ log[k].ok /\ log[k].to = "A2"]_vars

\* C33: once temp is in range, will not be changed again and the machine is
\* in "A1", the current state eventually becomes "A2" (unless the
\* application vetoes an event).
C33_HeldLeadsToTarget ==
  (Settled /\ current_state_ = "A1" /\ condition_values_["temp"].value = 2)
     ~> (current_state_ = "A2" \/ Vetoed)


(***************************************************************************)
(* FiniteStateMachine (state_machine.cpp), the class that holds states,    *)
(* rules, condition values and queues in one object.  Its members have the *)
(* names of the members of the components and are held by the same         *)
(* variables; GetStateHierarchy (lines 314-357) and HandleEvent (106-110)  *)
(* are the code of the components.  A Condition of this class has one      *)
(* range, and its ConditionValue has the flag isTriggered.                 *)
(***************************************************************************)
FsmCondTemp == [name |-> "temp", range |-> <<1, 1>>, duration |-> 0]
FsmCondPower == [name |-> "power", range |-> <<1, 2>>, duration |-> 0]

\* lines 277-282: the ConditionValue records LoadFromJSON creates, with values applied
FsmValues(v) ==
  [n \in DOMAIN v |-> [value |-> v[n], lastUpdateTime |-> 0, lastChangedTime |-> 0,
                       isTriggered |-> FALSE]]

RECURSIVE FSM_CheckFrom(_, _, _, _)
\* CheckConditions, lines 448-485: the loop from the i-th condition on; the
\* result and the condition values with the flags the call has set
FSM_CheckFrom(conditions, i, op, values) ==
  IF i > Len(conditions) THEN [result |-> (op = "AND"), values |-> values]
  ELSE LET cond == conditions[i]
           value == values[cond.name].value
           inRange == value >= cond.range[1] /\ value <= cond.range[2]
           gated == cond.duration > 0 /\ inRange
           held == now - values[cond.name].lastChangedTime >= cond.duration
           valueInRange == IF gated THEN held ELSE inRange
           after == IF gated /\ held
                    THEN [values EXCEPT ![cond.name].isTriggered = TRUE]
                    ELSE values
       IN IF gated /\ values[cond.name].isTriggered
          THEN IF op = "OR" THEN [result |-> TRUE, values |-> values]
               ELSE FSM_CheckFrom(conditions, i + 1, op, values)
          ELSE IF op = "AND" /\ ~valueInRange THEN [result |-> FALSE, values |-> after]
               ELSE IF op = "OR" /\ valueInRange THEN [result |-> TRUE, values |-> after]
               ELSE FSM_CheckFrom(conditions, i + 1, op, after)

\* FiniteStateMachine::CheckConditions
FSM_CheckConditions(conditions, op, values) ==
  IF conditions = <<>> THEN [result |-> TRUE, values |-> values]
  ELSE FSM_CheckFrom(conditions, 1, op, values)

RECURSIVE FSM_FirstRule(_, _, _)
\* ProcessEvent, lines 373-375: the first rule of the range whose conditions hold
FSM_FirstRule(rules, i, values) ==
  IF i > Len(rules) THEN [found |-> FALSE, values |-> values]
  ELSE LET r == FSM_CheckConditions(rules[i].conditions, rules[i].conditionsOperator, values)
       IN IF r.result THEN [found |-> TRUE, rule |-> rules[i], values |-> r.values]
          ELSE FSM_FirstRule(rules, i + 1, r.values)

RECURSIVE FSM_FindRule(_, _, _)
\* ProcessEvent, lines 369-413: the walk from the current state to the root
FSM_FindRule(state, name, values) ==
  IF state = NoState THEN [found |-> FALSE, values |-> values]
  ELSE LET r == FSM_FirstRule(SelectRules(transitions_, state, name), 1, values)
       IN IF r.found THEN [found |-> TRUE, state |-> state, rule |-> r.rule, values |-> r.values]
          ELSE FSM_FindRule(states_[state].parent, name, r.values)

\* the rules of the machine; the rule from "A" applies in "A1" and "A2"
FsmRules ==
  << [from |-> "A1", event |-> "E1", to |-> "A2", conditions |-> <<FsmCondTemp>>,
      conditionsOperator |-> "AND"],
     [from |-> "A", event |-> "E2", to |-> "B", conditions |-> <<>>, conditionsOperator |-> "AND"],
     [from |-> "A", event |-> "E1", to |-> "A1", conditions |-> <<FsmCondPower>>,
      conditionsOperator |-> "AND"],
     [from |-> "B", event |-> "E1", to |-> "A1", conditions |-> <<FsmCondTemp, FsmCondPower>>,
      conditionsOperator |-> "OR"] >>

\* the machine was loaded, given a handler and started
InitFsmRunning ==
  /\ component = "FiniteStateMachine"
  /\ initialized_ = TRUE
  /\ running_ = TRUE
  /\ fsm_threads = [t \in FsmThreads |-> "while"]
  /\ fsm_stop = NoStop
  /\ state_event_handler_ = [null |-> FALSE, callbacks |-> [slot \in CallbackSlots |-> "g"]]
  /\ InitStopped
  /\ InitCalls

InitFsmEvent ==
  /\ InitFsmRunning
  /\ states_ = ConfigStates
  /\ current_state_ \in {"A1", "A2", "B"}
  /\ transitions_ \in {FsmRules, Reverse(FsmRules)}
  /\ tm_running_ = FALSE
  /\ event_definitions_ = <<>>
  /\ all_conditions_ = Flatten([i \in 1..Len(FsmRules) |-> FsmRules[i].conditions])
  /\ \E v \in [ConditionNames -> 0..1] : condition_values_ = FsmValues(v)
  /\ now = 0

\* EventLoop, lines 286-299: the event thread takes the front of the queue
FE_Dequeue ==
  /\ fsm_threads["event_thread_"] = "while"
  /\ event_mutex_ = "free"
  /\ event_queue_ # <<>>
  /\ pe' = [NoFrame EXCEPT !.event = DequeueEvent(event_queue_).event]
  /\ event_queue_' = DequeueEvent(event_queue_).rest
  /\ fsm_threads' = [fsm_threads EXCEPT !["event_thread_"] = "process"]
  /\ UNCHANGED <<smVars, wdVars, tmVars, defVars, apiVars, component, lkVars, cmLifeVars, initialized_,
                 running_, fsm_stop, state_event_handler_, cmVars, now, eh_running_,
                 event_mutex_, el_pc, stop_pc, log, next_id>>

\* the entry ProcessEvent adds to the history for a callback; cur is
\* current_state_ at the call of ProcessEvent
FsmLogEntry(cb, ok, to, exit, enter) ==
  [cb |-> cb, id |-> pe.event.id, name |-> pe.event.name, cur |-> current_state_,
   ok |-> ok, to |-> to, exit |-> exit, enter |-> enter]

\* ProcessEvent, lines 359-418, with the callbacks of the handler in the
\* order they are made
FE_Process ==
  /\ fsm_threads["event_thread_"] = "process"
  /\ \E allow \in BOOLEAN :
        IF ~allow
        THEN /\ log' = log \o << FsmLogEntry("pre", FALSE, NoState, <<>>, <<>>),
                                 FsmLogEntry("post", FALSE, NoState, <<>>, <<>>) >>
             /\ UNCHANGED <<current_state_, condition_values_>>
        ELSE LET found == FSM_FindRule(current_state_, pe.event.name, condition_values_)
             IN /\ condition_values_' = found.values
                /\ IF found.found
                   THEN LET path == GetExitEnterPath(found.state, found.rule.to)
                            entry(cb) == FsmLogEntry(cb, TRUE, found.rule.to,
                                                     path.exit_states, path.enter_states)
                        IN /\ log' = log \o << FsmLogEntry("pre", TRUE, NoState, <<>>, <<>>),
                                               entry("transition"), entry("exit"),
                                               entry("commit"), entry("enter"),
                                               entry("post") >>
                           /\ current_state_' = found.rule.to
                   ELSE /\ log' = log \o << FsmLogEntry("pre", TRUE, NoState, <<>>, <<>>),
                                            FsmLogEntry("post", FALSE, NoState, <<>>, <<>>) >>
                        /\ UNCHANGED current_state_
  /\ pe' = NoFrame
  /\ fsm_threads' = [fsm_threads EXCEPT !["event_thread_"] = "while"]
  /\ UNCHANGED <<states_, wdVars, tmVars, defVars, apiVars, component, lkVars, cmLifeVars, initialized_,
                 running_, fsm_stop, state_event_handler_, now, cm_running_,
                 condition_update_queue_, condition_update_mutex_, timer_queue_, updates,
                 cl_pc, applied, next_seq, last_enq, ext_calls, trig_log, eh_running_,
                 event_queue_, event_mutex_, el_pc, stop_pc, next_id>>

NextFsmEvent ==
  \/ \E name \in EventNames : HandleEvent(name)
  \/ FE_Dequeue
  \/ FE_Process

SpecFsmEvent == InitFsmEvent /\ [][NextFsmEvent]_vars

\* C35: the exit and enter lists ProcessEvent hands to OnTransition,
\* OnExitState and OnEnterState are those between the state that was
\* current when the event was processed and the target of the rule: the
\* exit list starts with the current state.
C35_PathFromCurrentState ==
  \A i \in 1..Len(log) :
     log[i].cb \in {"transition", "exit", "enter"} =>
        /\ log[i].exit = GetExitEnterPath(log[i].cur, log[i].to).exit_states
        /\ log[i].enter = GetExitEnterPath(log[i].cur, log[i].to).enter_states


(***************************************************************************)
(* FiniteStateMachine: condition updates, duration timers and the flag     *)
(* isTriggered.  Two descriptors of "temp" ask for different durations.    *)
(* ProcessConditionUpdates and the expiry branch of TimerLoop run under    *)
(* condition_values_mutex_ and are one step each.                          *)
(***************************************************************************)
\* number of SetConditionValue calls made by external threads
MaxFsmUpdates == 2

FsmCondHold == [name |-> "temp", range |-> <<1, 2>>, duration |-> 1]
FsmCondLong == [name |-> "temp", range |-> <<2, 2>>, duration |-> 2]

InitFsmCond ==
  /\ InitFsmRunning
  /\ states_ = ConfigStates
  /\ current_state_ = "A1"
  /\ transitions_ = <<>>
  /\ tm_running_ = FALSE
  /\ event_definitions_ = <<>>
  /\ all_conditions_ \in {<<FsmCondHold, FsmCondLong>>, <<FsmCondLong, FsmCondHold>>}
  /\ condition_values_ = FsmValues([n \in ConditionNames |-> 0])
  /\ now = 0

\* ConditionLoop, lines 296-310: the queue is swapped into conditionQueueCopy
FC_Swap ==
  /\ fsm_threads["condition_thread_"] = "while"
  /\ condition_update_mutex_ = "free"
  /\ condition_update_queue_ # <<>>
  /\ updates' = condition_update_queue_
  /\ condition_update_queue_' = <<>>
  /\ fsm_threads' = [fsm_threads EXCEPT !["condition_thread_"] = "process"]
  /\ UNCHANGED <<smVars, wdVars, tmVars, defVars, apiVars, component, lkVars, cmLifeVars, initialized_,
                 running_, fsm_stop, state_event_handler_, now, ehVars, cm_running_,
                 condition_values_, condition_update_mutex_, timer_queue_, cl_pc, applied,
                 next_seq, last_enq, ext_calls, trig_log>>

RECURSIVE FSM_FirstGated(_, _, _)
\* lines 507-519: the first descriptor of the name with a duration whose
\* range contains the value, from the i-th descriptor on; 0 when there is none
FSM_FirstGated(update, conds, i) ==
  IF i > Len(conds) THEN 0
  ELSE IF /\ conds[i].name = update.name
          /\ conds[i].duration > 0
          /\ update.value >= conds[i].range[1]
          /\ update.value <= conds[i].range[2]
       THEN i
       ELSE FSM_FirstGated(update, conds, i + 1)

\* lines 494-526: one update of the batch; acc carries the condition
\* values, the timer queue, whether event_trigger_cv_ was notified, and the
\* history
FSM_ApplyUpdate(update, acc) ==
  LET old == acc.values[update.name]
      changed == old.value # update.value
      k == FSM_FirstGated(update, all_conditions_, 1)
      record == IF changed
                THEN [old EXCEPT !.value = update.value,
                                 !.lastChangedTime = update.updateTime,
                                 !.isTriggered = FALSE]
                ELSE old
      done == Append(acc.applied, [seq |-> update.seq, name |-> update.name,
                                   value |-> update.value, updateTime |-> update.updateTime])
  IN [values |-> [acc.values EXCEPT ![update.name] = record],
      timers |-> IF changed /\ k > 0
                 THEN Append(acc.timers,
                             [name |-> update.name, value |-> update.value,
                              duration |-> all_conditions_[k].duration,
                              expiryTime |-> update.updateTime + all_conditions_[k].duration,
                              seq |-> update.seq])
                 ELSE acc.timers,
      notified |-> acc.notified \/ (changed /\ k = 0),
      applied |-> done]

RECURSIVE FSM_ApplyBatch(_, _)
FSM_ApplyBatch(batch, acc) ==
  IF batch = <<>> THEN acc
  ELSE FSM_ApplyBatch(Tail(batch), FSM_ApplyUpdate(Head(batch), acc))

\* ProcessConditionUpdates, lines 490-529
FC_Process ==
  /\ fsm_threads["condition_thread_"] = "process"
  /\ LET r == FSM_ApplyBatch(updates, [values |-> condition_values_, timers |-> timer_queue_,
                                        notified |-> FALSE, applied |-> applied])
     IN /\ condition_values_' = r.values
        /\ timer_queue_' = r.timers
        /\ applied' = r.applied
        /\ fsm_threads' =
              [fsm_threads EXCEPT
                 !["condition_thread_"] = "while",
                 !["event_trigger_thread_"] = IF r.notified THEN NotifyThread(@) ELSE @]
  /\ updates' = <<>>
  /\ UNCHANGED <<smVars, wdVars, tmVars, defVars, apiVars, component, lkVars, cmLifeVars, initialized_,
                 running_, fsm_stop, state_event_handler_, now, ehVars, cm_running_,
                 condition_update_queue_, condition_update_mutex_, cl_pc, next_seq, last_enq,
                 ext_calls, trig_log>>

\* TimerLoop, lines 594-615: the top entry has expired; it is popped, and
\* when the value is still the one of the entry and has been held for the
\* duration of the entry the flag of the name is set
FT_Expire ==
  /\ fsm_threads["timer_thread_"] = "while"
  /\ \E i \in TopIndices(timer_queue_) :
        LET entry == timer_queue_[i]
            record == condition_values_[entry.name]
        IN /\ now >= entry.expiryTime
           /\ timer_queue_' = PopAt(timer_queue_, i)
           /\ IF record.value = entry.value /\ now - record.lastChangedTime >= entry.duration
              THEN /\ condition_values_' =
                         [condition_values_ EXCEPT ![entry.name].isTriggered = TRUE]
                   /\ fsm_threads' =
                         [fsm_threads EXCEPT !["event_trigger_thread_"] = NotifyThread(@)]
              ELSE UNCHANGED <<condition_values_, fsm_threads>>
  /\ UNCHANGED <<smVars, wdVars, tmVars, defVars, apiVars, component, lkVars, cmLifeVars, initialized_,
                 running_, fsm_stop, state_event_handler_, now, ehVars, cm_running_,
                 condition_update_queue_, condition_update_mutex_, updates, cl_pc, applied,
                 next_seq, last_enq, ext_calls, trig_log>>

\* one CheckConditions call, as ProcessEvent and TriggerEvent make it, on a
\* list with one descriptor
FSM_CheckConditionsCall(cond) ==
  /\ check_call = NoCheck
  /\ LET r == FSM_CheckConditions(<<cond>>, "AND", condition_values_)
     IN /\ check_call' = [conditions |-> <<cond>>, op |-> "AND", result |-> r.result,
                          threw |-> FALSE]
        /\ condition_values_' = r.values
  /\ UNCHANGED <<smVars, wdVars, tmVars, defVars, hier_call, value_call, tm_hist, sm_running_,
                 tt_pc, gh, last_call, api_calls, lifeVars, now, ehVars, cm_running_,
                 condition_update_queue_, condition_update_mutex_, timer_queue_, updates,
                 cl_pc, applied, next_seq, last_enq, ext_calls, trig_log>>

NextFsmCond ==
  \/ \E value \in 0..MaxValue : SetConditionValueCall("temp", value, MaxFsmUpdates)
  \/ FC_Swap
  \/ FC_Process
  \/ FT_Expire
  \/ \E cond \in {FsmCondHold, FsmCondLong} : FSM_CheckConditionsCall(cond)
  \/ Tick

SpecFsmCond == InitFsmCond /\ [][NextFsmCond]_vars

\* C36: a batch of updates that changes the value of a condition leaves its
\* flag isTriggered cleared, and CheckConditions reports a descriptor with
\* a duration as met only when the value is in the range of the descriptor
\* and has been held for the duration of that descriptor since the call
\* time of the last update that changed it.
C36_FlagClearedAndOwnDuration ==
  [][/\ applied' # applied =>
          \A n \in DOMAIN condition_values_ :
             condition_values_'[n].value # condition_values_[n].value =>
                ~condition_values_'[n].isTriggered
     /\ (check_call' # check_call /\ check_call'.result) =>
          LET cond == check_call'.conditions[1]
              value == condition_values_[cond.name].value
          IN /\ value >= cond.range[1]
             /\ value <= cond.range[2]
             /\ now - LastChangeTime(cond.name) >= cond.duration]_vars


(***************************************************************************)
(* Lock order.  A pass of a thread is the sequence of lock and unlock      *)
(* operations of one iteration of its loop, or of one call; a wait on a    *)
(* condition variable releases its mutex, so a pass holds nothing across   *)
(* it.  A thread runs its pass one operation at a time and blocks at a     *)
(* lock whose mutex is held.                                               *)
(***************************************************************************)
\* timer_queue_ holds at most this many entries
MaxTimerEntries == 2

Lock(m) == [op |-> "lock", m |-> m, alts |-> {}]
Unlock(m) == [op |-> "unlock", m |-> m, alts |-> {}]
Push == [op |-> "push", m |-> "timer_mutex_", alts |-> {}]
Pop == [op |-> "pop", m |-> "timer_mutex_", alts |-> {}]

\* a branch of the code: one of the parts runs
Either(parts) == <<[op |-> "either", m |-> "", alts |-> parts]>>

\* a part that runs or not
Opt(part) == Either({<<>>, part})

\* { std::lock_guard<std::mutex> lock(m); body }
Scope(m, body) == <<Lock(m)>> \o body \o <<Unlock(m)>>

\* EventHandler::HandleEvent, event_handler.cpp:85-89
LocksHandleEvent == Scope("event_mutex_", <<>>)

\* ConditionManager::SetConditionValue, condition_manager.cpp:74-80
LocksSetConditionValue == Scope("condition_update_mutex_", <<>>)

\* ConditionManager::GetConditionValue (158-167) and the copy of
\* CheckConditions (85-88)
LocksReadValues == Scope("condition_values_mutex_", <<>>)

\* StateManager::GetCurrentState, state_manager.cpp:120-123
LocksGetCurrentState == Scope("state_mutex_", <<>>)

\* StateManager::SetState, state_manager.cpp:93-118: the return for a state
\* that is not registered (95-98), or timeout_mutex_ inside state_mutex_
LocksSetState == Scope("state_mutex_", Opt(Scope("timeout_mutex_", <<>>)))

\* EventHandler::TriggerEvent, event_handler.cpp:175-219, with one event
\* definition: GetConditionValue, CheckConditions, then SetConditionValue
\* and HandleEvent or not, and the HandleEvent of the internal event
LocksTriggerEvent ==
  LocksReadValues \o LocksReadValues \o Opt(LocksSetConditionValue) \o Opt(LocksHandleEvent)
    \o LocksHandleEvent

\* ConditionManager::NotifyConditionChange, condition_manager.cpp:313-319
LocksNotifyConditionChange == Scope("callback_mutex_", LocksTriggerEvent)

\* ConditionManager::ProcessConditionUpdates, condition_manager.cpp:261-311,
\* with one update: the swap, then the update with a timer pushed under both
\* mutexes, or the update followed by the notification
LocksProcessConditionUpdates ==
  Scope("condition_update_mutex_", <<>>)
    \o Either({Scope("condition_values_mutex_", Scope("timer_mutex_", <<Push>>)),
               LocksReadValues \o LocksNotifyConditionChange})

\* ConditionManager::ConditionLoop, condition_manager.cpp:178-192
LocksConditionLoop == Scope("condition_update_mutex_", <<>>) \o LocksProcessConditionUpdates

\* TimerLoop with the values read inside the scope of timer_mutex_
LocksTimerLoopNested ==
  <<Lock("timer_mutex_")>>
    \o Either({<<Unlock("timer_mutex_")>>,
               <<Pop>> \o LocksReadValues \o <<Unlock("timer_mutex_")>>
                 \o Opt(LocksNotifyConditionChange)})

\* ConditionManager::TimerLoop, condition_manager.cpp:194-259: the queue is
\* empty or the top is not due (200-229); or the top is popped, the scope of
\* timer_mutex_ ends, and the values are read (238), followed or not by the
\* notification (254-257)
LocksTimerLoop ==
  <<Lock("timer_mutex_")>>
    \o Either({<<Unlock("timer_mutex_")>>,
               <<Pop, Unlock("timer_mutex_")>> \o LocksReadValues
                 \o Opt(LocksNotifyConditionChange)})

\* EventHandler::ProcessEvent, event_handler.cpp:100-150: GetCurrentState,
\* FindTransition, CheckConditions of a rule, SetState
LocksProcessEvent ==
  LocksGetCurrentState \o Scope("mutex_", <<>>) \o Opt(LocksReadValues \o Opt(LocksSetState))

\* EventHandler::EventLoop, event_handler.cpp:152-173
LocksEventLoop == Scope("event_mutex_", <<>>) \o Opt(LocksProcessEvent)

\* StateManager::StateTimeoutLoop, state_manager.cpp:183-228: the timeout is
\* due and the callback runs after the scope (HandleStateTimeout, 230-235,
\* calls TriggerStateTimeoutEvent, event_handler.cpp:221-225); or
\* lock.unlock() and a second lock for wait_until (212-219)
LocksStateTimeoutLoop ==
  Scope("timeout_mutex_", <<>>)
    \o Either({LocksHandleEvent, Scope("timeout_mutex_", <<>>)})

\* the calls of the public methods by other threads
LocksCaller == Either({LocksSetConditionValue, LocksHandleEvent, LocksGetCurrentState})

\* FiniteStateMachine::ProcessConditionUpdates, state_machine.cpp:490-529:
\* condition_values_mutex_ for the whole batch, the timer pushed inside it
LocksFsmProcessConditionUpdates ==
  Scope("condition_values_mutex_", Opt(Scope("timer_mutex_", <<Push>>)))

\* FiniteStateMachine::ConditionLoop, state_machine.cpp:292-313
LocksFsmConditionLoop ==
  Scope("condition_update_mutex_", <<>>) \o Opt(LocksFsmProcessConditionUpdates)

\* FiniteStateMachine::TimerLoop, state_machine.cpp:586-621: timer_mutex_ for
\* the whole iteration; for a due entry condition_values_mutex_ inside it
\* (601) and event_trigger_mutex_ inside both (613)
LocksFsmTimerLoop ==
  Scope("timer_mutex_",
        Opt(<<Pop>> \o Scope("condition_values_mutex_",
                            Opt(Scope("event_trigger_mutex_", <<>>)))))

\* FiniteStateMachine::HandleEvent, state_machine.cpp:106-110
LocksFsmHandleEvent == Scope("event_mutex_", <<>>)

\* FiniteStateMachine::TriggerEvent, state_machine.cpp:531-584, with one
\* event definition: CheckConditions (534), then condition_values_mutex_
\* (536) with HandleEvent inside it or not, and the final HandleEvent (583)
LocksFsmTriggerEvent ==
  LocksReadValues \o Scope("condition_values_mutex_", Opt(LocksFsmHandleEvent))
    \o LocksFsmHandleEvent

\* FiniteStateMachine::EventTriggerLoop, state_machine.cpp:623-632: the wait
\* releases event_trigger_mutex_; after it the thread holds the mutex
\* again, leaves when running_ is false, or runs TriggerEvent under it
LocksFsmEventTriggerLoop ==
  Scope("event_trigger_mutex_", <<>>)
    \o Scope("event_trigger_mutex_", Opt(LocksFsmTriggerEvent))

\* FiniteStateMachine::EventLoop (270-290) and the locks of ProcessEvent:
\* CheckConditions (441) and state_mutex_ (393)
LocksFsmEventLoop ==
  Scope("event_mutex_", <<>>) \o Opt(LocksReadValues \o Opt(Scope("state_mutex_", <<>>)))

\* FiniteStateMachine::SetConditionValue (189-194), HandleEvent (106-110),
\* GetCurrentState (184-187)
LocksFsmCaller == Either({LocksSetConditionValue, LocksFsmHandleEvent, LocksGetCurrentState})

\* the pass of a thread
PassOf(t) ==
  IF component = "components"
  THEN CASE t = "condition_thread_" -> LocksConditionLoop
         [] t = "timer_thread_" -> LocksTimerLoop
         [] t = "event_thread_" -> LocksEventLoop
         [] t = "timeout_thread_" -> LocksStateTimeoutLoop
         [] t = "caller" -> LocksCaller
         [] OTHER -> <<>>
  ELSE CASE t = "condition_thread_" -> LocksFsmConditionLoop
         [] t = "timer_thread_" -> LocksFsmTimerLoop
         [] t = "event_thread_" -> LocksFsmEventLoop
         [] t = "event_trigger_thread_" -> LocksFsmEventTriggerLoop
         [] t = "caller" -> LocksFsmCaller
         [] OTHER -> <<>>

\* the next operation of the pass of thread t
NextOp(t) == Head(lock_plan[t])

Has(part, op) == \E i \in 1..Len(part) : part[i] = op

\* a thread starts a pass
LK_Begin(t) ==
  /\ lock_plan[t] = <<>>
  /\ PassOf(t) # <<>>
  /\ lock_plan' = [lock_plan EXCEPT ![t] = PassOf(t)]
  /\ UNCHANGED <<smVars, wdVars, tmVars, defVars, apiVars, component, mutex_owner, timer_entries,
                 cmLifeVars, fsmVars, cmVars, now, ehVars>>

\* a branch: the part that pops needs an entry in timer_queue_
LK_Branch(t) ==
  /\ lock_plan[t] # <<>>
  /\ NextOp(t).op = "either"
  /\ \E part \in NextOp(t).alts :
        /\ Has(part, Pop) => timer_entries > 0
        /\ Has(part, Push) => timer_entries < MaxTimerEntries
        /\ lock_plan' = [lock_plan EXCEPT ![t] = part \o Tail(@)]
  /\ UNCHANGED <<smVars, wdVars, tmVars, defVars, apiVars, component, mutex_owner, timer_entries,
                 cmLifeVars, fsmVars, cmVars, now, ehVars>>

\* the mutexes thread t holds
HeldBy(t) == {m \in Mutexes : mutex_owner[m] = t}

\* thread t is at a scope with an empty body and holds no mutex
AtScopeAlone(t) ==
  /\ Len(lock_plan[t]) >= 2
  /\ NextOp(t).op = "lock"
  /\ lock_plan[t][2] = Unlock(NextOp(t).m)
  /\ HeldBy(t) = {}

\* a scope with an empty body, entered by a thread that holds no mutex, is
\* one step: the thread blocks until the mutex is free, and while it holds
\* the mutex it blocks at nothing
LK_Scope(t) ==
  /\ AtScopeAlone(t)
  /\ mutex_owner[NextOp(t).m] = "free"
  /\ lock_plan' = [lock_plan EXCEPT ![t] = Tail(Tail(@))]
  /\ UNCHANGED <<smVars, wdVars, tmVars, defVars, apiVars, component, mutex_owner, timer_entries,
                 cmLifeVars, fsmVars, cmVars, now, ehVars>>

\* std::mutex::lock
LK_Lock(t) ==
  /\ lock_plan[t] # <<>>
  /\ NextOp(t).op = "lock"
  /\ ~AtScopeAlone(t)
  /\ mutex_owner[NextOp(t).m] = "free"
  /\ mutex_owner' = [mutex_owner EXCEPT ![NextOp(t).m] = t]
  /\ lock_plan' = [lock_plan EXCEPT ![t] = Tail(@)]
  /\ UNCHANGED <<smVars, wdVars, tmVars, defVars, apiVars, component, timer_entries,
                 cmLifeVars, fsmVars, cmVars, now, ehVars>>

\* std::mutex::unlock at the end of the scope
LK_Unlock(t) ==
  /\ lock_plan[t] # <<>>
  /\ NextOp(t).op = "unlock"
  /\ mutex_owner' = [mutex_owner EXCEPT ![NextOp(t).m] = "free"]
  /\ lock_plan' = [lock_plan EXCEPT ![t] = Tail(@)]
  /\ UNCHANGED <<smVars, wdVars, tmVars, defVars, apiVars, component, timer_entries,
                 cmLifeVars, fsmVars, cmVars, now, ehVars>>

\* timer_queue_.push and timer_queue_.pop, under timer_mutex_
LK_Queue(t) ==
  /\ lock_plan[t] # <<>>
  /\ NextOp(t).op \in {"push", "pop"}
  /\ timer_entries' = IF NextOp(t).op = "push" THEN timer_entries + 1 ELSE timer_entries - 1
  /\ lock_plan' = [lock_plan EXCEPT ![t] = Tail(@)]
  /\ UNCHANGED <<smVars, wdVars, tmVars, defVars, apiVars, component, mutex_owner,
                 cmLifeVars, fsmVars, cmVars, now, ehVars>>

NextLocks ==
  \E t \in LockThreads :
     LK_Begin(t) \/ LK_Branch(t) \/ LK_Scope(t) \/ LK_Lock(t) \/ LK_Unlock(t) \/ LK_Queue(t)

InitLocks ==
  /\ component = "components"
  /\ states_ = ConfigStates
  /\ current_state_ = "A1"
  /\ transitions_ = ConfigRules
  /\ tm_running_ = TRUE
  /\ event_definitions_ = ConfigEventDefinitions
  /\ all_conditions_ = ConfigConditions
  /\ condition_values_ = InitialValues([n \in ConditionNames |-> 0])
  /\ now = 0
  /\ InitIdle

SpecLocks == InitLocks /\ [][NextLocks]_vars

\* the thread that holds the mutex thread t is blocked at, or "free"
Blocker(t) ==
  IF lock_plan[t] # <<>> /\ NextOp(t).op = "lock" THEN mutex_owner[NextOp(t).m] ELSE "free"

\* thread t is blocked at the lock of a mutex held by thread u
WaitsFor(t, u) == Blocker(t) = u

RECURSIVE Reaches(_, _, _)
\* from thread t, thread u is reached in at most n steps from a blocked
\* thread to the holder of its mutex
Reaches(t, u, n) ==
  LET b == Blocker(t)
  IN /\ b # "free"
     /\ \/ b = u
        \/ n > 1 /\ Reaches(b, u, n - 1)

\* some threads are each blocked at a mutex held by the next one, in a cycle
CircularWait == \E t \in LockThreads : Reaches(t, t, Cardinality(LockThreads))

\* thread t, holding mutex a, is at the lock of mutex b
LocksInside(t, a, b) ==
  /\ a \in HeldBy(t)
  /\ lock_plan[t] # <<>>
  /\ NextOp(t) = Lock(b)

\* the order of the mutexes: b may be locked while a is held
LockOrder ==
  {<<"condition_values_mutex_", "timer_mutex_">>,
   <<"callback_mutex_", "condition_values_mutex_">>,
   <<"callback_mutex_", "condition_update_mutex_">>,
   <<"callback_mutex_", "event_mutex_">>,
   <<"state_mutex_", "timeout_mutex_">>}

\* C37: in the component design no set of threads is in a circular wait on
\* the mutexes, and a thread locks a mutex while it holds another one only
\* in the order values before timer, callback before values, update queue
\* and event queue, state before timeout.
C37_NoCircularWait ==
  /\ ~CircularWait
  /\ \A t \in LockThreads :
        (lock_plan[t] # <<>> /\ NextOp(t).op = "lock") =>
           \A a \in HeldBy(t) : <<a, NextOp(t).m>> \in LockOrder

\* the condition thread, inside condition_values_mutex_, is blocked at
\* timer_mutex_, which the timer thread holds
C37_Witness ==
  /\ LocksInside("condition_thread_", "condition_values_mutex_", "timer_mutex_")
  /\ WaitsFor("condition_thread_", "timer_thread_")


(***************************************************************************)
(* FiniteStateMachine: the same threads of locks, with the passes of       *)
(* state_machine.cpp                                                       *)
(***************************************************************************)
InitFsmLocks ==
  /\ InitFsmRunning
  /\ states_ = ConfigStates
  /\ current_state_ = "A1"
  /\ transitions_ = FsmRules
  /\ tm_running_ = FALSE
  /\ event_definitions_ = <<>>
  /\ all_conditions_ = <<FsmCondHold, FsmCondLong>>
  /\ condition_values_ = FsmValues([n \in ConditionNames |-> 0])
  /\ now = 0

SpecFsmLocks == InitFsmLocks /\ [][NextLocks]_vars

\* the threads that run ProcessConditionUpdates, TimerLoop and TriggerEvent
FsmConditionThreads == {"condition_thread_", "timer_thread_", "event_trigger_thread_"}

\* C38: the condition thread, the timer thread and the event trigger
\* thread of the FiniteStateMachine are never each blocked at a mutex that
\* another of them holds.
C38_NoFsmDeadlock ==
  ~\E t \in FsmConditionThreads :
      /\ Reaches(t, t, Cardinality(FsmConditionThreads))
      /\ Blocker(t) \in FsmConditionThreads


(***************************************************************************)
(* The event queue of the EventHandler: nothing is lost, nothing is        *)
(* processed twice.  The event thread and Start are scheduled fairly;      *)
(* Stop and the callers of HandleEvent need not happen.                    *)
(***************************************************************************)
SpecRunFair ==
  /\ Init
  /\ [][Next]_vars
  /\ WF_vars(EH_Start)
  /\ WF_vars(EventThread)

\* how many entries of event_queue_ hold the event
QueueCount(id) == Cardinality({k \in 1..Len(event_queue_) : event_queue_[k].id = id})

\* the event was handed to ProcessEvent
Taken(id) == pe.event.id = id \/ id \in Dequeued

\* C39: every event HandleEvent accepted is in the queue once or was handed
\* to ProcessEvent once, never both; HandleEvent enqueues also when the
\* handler is not running, and no event leaves the queue while running_ is
\* false; an event in the queue is processed to the end of ProcessEvent
\* unless the handler stops running.
C39_NoEventLostOrRepeated ==
  /\ [](\A id \in 1..MaxEvents :
          /\ QueueCount(id) + (IF Taken(id) THEN 1 ELSE 0) = (IF id < next_id THEN 1 ELSE 0)
          /\ Count(id, "dequeue") <= 1)
  /\ [][/\ next_id' # next_id =>
             /\ Len(event_queue_') = Len(event_queue_) + 1
             /\ event_queue_'[Len(event_queue_')].id = next_id
             /\ SubSeq(event_queue_', 1, Len(event_queue_)) = event_queue_
        /\ Len(event_queue_') < Len(event_queue_) => eh_running_]_vars
  /\ \A id \in 1..MaxEvents : (QueueCount(id) > 0) ~> (id \in Finished \/ ~eh_running_)

\* the first event was processed; the second, enqueued after Stop, is still
\* in the queue when the event thread has left
C39_Witness ==
  /\ 1 \in Finished
  /\ QueueCount(2) = 1
  /\ ~eh_running_
  /\ el_pc = "exited"


(***************************************************************************)
(* SetState with names that were never registered: "A2" is not in states_, *)
(* a rule leads to it, and the owner of the state machine passes it and    *)
(* the empty name to SetState.  The event thread runs; the timeout thread  *)
(* is parked in timeout_cv_.wait.                                          *)
(***************************************************************************)
RegisteredStates == [s \in StateNames \ {"A2"} |-> TimeoutStates[s]]

SetStateNames == {"A1", "A2", "B", NoState}

RuleToRegistered ==
  [from |-> "A1", event |-> "E1", to |-> "B", conditions |-> <<>>, conditionsOperator |-> "AND"]

RuleToUnregistered ==
  [from |-> "B", event |-> "E1", to |-> "A2", conditions |-> <<>>, conditionsOperator |-> "AND"]

InitSetState ==
  /\ component = "components"
  /\ states_ = RegisteredStates
  /\ current_state_ = NoState
  /\ current_state_timeout_ = NoTimeout
  /\ transitions_ = <<RuleToRegistered, RuleToUnregistered>>
  /\ tm_running_ = TRUE
  /\ event_definitions_ = <<>>
  /\ all_conditions_ = <<>>
  /\ condition_values_ = InitialValues([n \in ConditionNames |-> 0])
  /\ now = 0
  /\ sm_running_ = TRUE
  /\ cm_running_ = FALSE
  /\ eh_running_ = TRUE
  /\ tt_pc = "parked"
  /\ timer_pc = "none"
  /\ cl_pc = "none"
  /\ el_pc = "while"
  /\ InitQuiet

NextSetState ==
  \/ \E state \in SetStateNames : SM_SetState(state)
  \/ HandleEvent("E1")
  \/ EventThread
  \/ Tick

SpecSetState == InitSetState /\ [][NextSetState]_vars

\* C40: a SetState call with a name that is not registered returns false
\* and leaves current_state_ and current_state_timeout_ as they were, from
\* the owner and from ProcessEvent alike; a call with a registered name
\* returns true; current_state_ is empty or registered at all times.
C40_UnregisteredStateRejected ==
  /\ [](current_state_ = NoState \/ current_state_ \in DOMAIN states_)
  /\ [][/\ \A state \in SetStateNames :
             SM_SetState(state) =>
               /\ last_call'.ret = BoolRet(state \in DOMAIN states_)
               /\ state \notin DOMAIN states_ =>
                    /\ current_state_' = current_state_
                    /\ current_state_timeout_' = current_state_timeout_
        /\ (PE_SetState /\ pe.rules[pe.idx].to \notin DOMAIN states_) =>
             /\ current_state_' = current_state_
             /\ current_state_timeout_' = current_state_timeout_]_vars

\* "B" is current with its timeout armed, the owner's SetState returned
\* false, and the event thread has committed the rule that leads to "A2"
C40_Witness ==
  /\ current_state_ = "B"
  /\ current_state_timeout_.state = "B"
  /\ last_call = ApiCall("SetState", "false", TRUE)
  /\ \E i \in LogIndex : log[i].cb = "commit" /\ log[i].to = "A2"
====
